---- MODULE Spec2Model ----
(***************************************************************************)
(* Verification model of the argus backend: signal deduplication          *)
(* (SignalDetector.save_signal), the screening pipeline                   *)
(* (ScreenerService.screen and its helpers), the screener cache key       *)
(* (CacheKeys.screener) and the periodic signal-detection sweep           *)
(* (tasks/detect_signals.py).                                             *)
(***************************************************************************)
EXTENDS Integers, Naturals, Sequences, FiniteSets, TLC

(***************************************************************************)
(* Bounds of the model (not program constants).                           *)
(***************************************************************************)
MaxClock == 48          \* hours of wall-clock time explored by the dedup model
MaxCalls == 4           \* save_signal calls explored
MaxUniverse == 13       \* largest universe explored by the screening fan-out model
MaxEscapes == 2         \* tasks of that universe whose entry raises

(***************************************************************************)
(* Program constants.                                                     *)
(***************************************************************************)
DedupeHours == 24       \* save_signal(dedupe_hours=24)
ScreenConcurrency == 10 \* asyncio.Semaphore(10) in ScreenerService.screen

SigSymbols == {"AAPL"}
SigTypes == {"rsi_oversold", "new_52w_high"}

VARIABLES
    \* --- SignalDetector.save_signal against the signals table ---
    clock,        \* datetime.now(timezone.utc), in hours
    store,        \* rows of the signals table: [symbol, signal_type, timestamp]
    calls,        \* number of save_signal calls made
    lastCall,     \* the last save_signal call to return and its outcome
    pending,      \* per caller (session): the save_signal call it is in, and its locals
    \* --- ScreenerService.screen: gather over process_with_limit tasks ---
    poolN,        \* len(universe): number of per-symbol tasks
    poolWaiting,  \* tasks blocked on "async with semaphore" whose _process_stock call starts
    poolEscapes,  \* blocked tasks whose argument evaluation (stock["symbol"], ...) raises
    poolRunning,  \* tasks inside the semaphore (running _process_stock)
    poolDone,     \* tasks whose _process_stock call finished (result, None or exception)
    poolFailed,   \* tasks that raised on entry, before any suspension
    poolPc,       \* "gather" while awaiting asyncio.gather, "returned" after
    \* --- ScreenerService.screen: per-symbol results, filter, sort, page ---
    scrReq,       \* the ScreenerRequest
    scrUniverse,  \* the universe rows and what the collaborators answer for each
    scrResults,   \* gather's result list (see Res)
    scrPc,        \* "gather" until all tasks finished, then "done"
    scrResp,      \* the ScreenerResponse (plus the locals it was built from)
    \* --- CacheKeys.screener(request.model_dump()) for two requests ---
    kReq1, kReq2, \* the two requests
    kOrd1, kOrd2, \* the field order of the dict handed to CacheKeys.screener
    key1, key2,   \* the keys computed
    kPc,          \* "init" before, "done" after computing the keys
    \* --- screen() calls against the cache collaborator ---
    cache,        \* cache_service contents per screener key
    cacheUp,      \* FALSE while the cache backend is unavailable
    cMarket,      \* the MA distance each symbol currently has
    cCalls,       \* screen() calls made (also the clock of cache timestamps)
    cReq,         \* per caller: the request of its last call
    cKey,         \* per caller: its cache key
    cResp,        \* per caller: its response
    cPc,          \* per caller: "idle" (returned), "universe", "gather", "set"
    cFetched,     \* per caller: the MA distance each symbol task read (0: not yet)
    cId,          \* per caller: the number of its last call
    universeReads,\* UniverseManager.get_universe calls made by screen()
    stored,       \* per key, the response of the run whose page the cache holds
    \* --- detect_all_signals sweep ---
    swOutcome,    \* per symbol: fail, and the outcome of each signal's write
    swTask,       \* per symbol task: "waiting", "fetch", "saving", "done"
    swSession,    \* per task, the id of the session it holds (0: none)
    swSaved,      \* per task, the save_signal calls it has made
    swPc,         \* "gather" until gather returns, then "done"
    swResult,     \* per task, what gather returns: [exc, detected, saved]
    swTotals,     \* errors, signals_detected, signals_saved after the loop
    \* --- one MarketDataService call (get_quote / get_ohlcv / get_ohlcv_for_indicators) ---
    mdKind,       \* which method
    mdPc,         \* "start", "awaiting" (in wait_for), "returned"
    mdElapsed,    \* seconds spent in wait_for
    mdThread,     \* the to_thread worker: "none", "running", "value", "noData", "raises"
    mdAttempts,   \* provider calls started
    mdCause,      \* why wait_for ended: "value", "noData", "raises", "timeout"
    mdOut,        \* what the method gave its caller: [result, raised]
    \* --- CacheService (services/cache.py) and a read-through caller ---
    csRedis,      \* self._redis: "none" (disconnected) or "conn"
    csStore,      \* the Redis server's contents per key (0: no key)
    csData,       \* per symbol, the market data the indicators are computed from
    csOp,         \* the last call and what it gave its caller
    csOut,        \* the last IndicatorData returned by get_stock_indicators
    csCalls,      \* calls made (returned)
    csPend,       \* per caller: the get_stock_indicators call it is in
    \* --- one application of a pure function ---
    fnIn,         \* its arguments
    fnOut,        \* its result
    fnPc          \* "init" before, "done" after the application

dedupVars == <<clock, store, calls, lastCall, pending>>
poolVars == <<poolN, poolWaiting, poolEscapes, poolRunning, poolDone, poolFailed, poolPc>>
scrVars == <<scrReq, scrUniverse, scrResults, scrPc, scrResp>>
keyVars == <<kReq1, kReq2, kOrd1, kOrd2, key1, key2, kPc>>
vars == <<clock, store, calls, lastCall, pending, poolN, poolWaiting, poolEscapes, poolRunning, poolDone, poolFailed, poolPc,
          scrReq, scrUniverse, scrResults, scrPc, scrResp,
          kReq1, kReq2, kOrd1, kOrd2, key1, key2, kPc,
          cache, cacheUp, cMarket, cCalls, cReq, cKey, cResp, cPc, cFetched, cId, universeReads, stored,
          swOutcome, swTask, swSession, swSaved, swPc, swResult, swTotals,
          mdKind, mdPc, mdElapsed, mdThread, mdAttempts, mdCause, mdOut,
          csRedis, csStore, csData, csOp, csOut, csCalls, csPend, fnIn, fnOut, fnPc>>
csVars == <<csRedis, csStore, csData, csOp, csOut, csCalls, csPend>>
fnVars == <<fnIn, fnOut, fnPc>>
mdVars == <<mdKind, mdPc, mdElapsed, mdThread, mdAttempts, mdCause, mdOut>>
cacheVars == <<cache, cacheUp, cMarket, cCalls, cReq, cKey, cResp, cPc, cFetched, cId, universeReads, stored>>
sweepVars == <<swOutcome, swTask, swSession, swSaved, swPc, swResult, swTotals>>

NoCall == [symbol |-> "none", signal_type |-> "none", at |-> 0, result |-> "none"]

\* Callers of save_signal, each with its own AsyncSession, whose calls may
\* overlap: the jobs "detect_signals" and "detect_signals_close" of
\* setup_scheduler have distinct ids, so max_instances=1 does not serialise
\* their sweeps.  The signals table has no unique constraint on (symbol,
\* signal_type), and neither a READ COMMITTED transaction nor sqlite3's
\* implicit BEGIN (issued only before the INSERT) keeps another session
\* from inserting between a caller's SELECT and its commit.
DedupSlots == {1, 2}

\* A caller's call: pc "idle" (no call), "query" (awaiting db.execute) or
\* "commit" (awaiting db.commit); now is the datetime.now() taken for
\* since, stamp the one taken for the record, id the record's uuid4().
NoPending == [pc |-> "idle", symbol |-> "none", signal_type |-> "none", now |-> 0, stamp |-> 0, id |-> 0]

(***************************************************************************)
(* The query of save_signal: rows with the same symbol and type whose      *)
(* timestamp is >= since, since = now - timedelta(hours=dedupe_hours).     *)
(***************************************************************************)
DuplicateRowsStrict(st, sym, typ, now) ==
    {e \in st : e.symbol = sym /\ e.signal_type = typ /\ e.timestamp > now - DedupeHours}

DuplicateRows(st, sym, typ, now) ==
    {e \in st : e.symbol = sym /\ e.signal_type = typ /\ e.timestamp >= now - DedupeHours}

(***************************************************************************)
(* save_signal(db, signal): since = datetime.now() - 24h is taken before   *)
(* "await db.execute(select ...)"; scalar_one_or_none() raises when the    *)
(* query yields more than one row; a row found means "duplicate, return    *)
(* None"; otherwise now = datetime.now() stamps a SignalRecord that is     *)
(* added and made visible by "await db.commit()".  Each await is a         *)
(* suspension point at which other callers' steps and time may pass.      *)
(***************************************************************************)
SaveSignalStart(i, sym, typ) ==
    /\ pending[i].pc = "idle"
    /\ calls < MaxCalls
    /\ pending' = [pending EXCEPT ![i] = [pc |-> "query", symbol |-> sym, signal_type |-> typ,
                                          now |-> clock, stamp |-> 0, id |-> calls + 1]]
    /\ calls' = calls + 1
    /\ UNCHANGED <<clock, store, lastCall>>

\* db.execute returns the rows committed by then; existing = scalar_one_or_none().
SaveSignalQuery(i) ==
    /\ pending[i].pc = "query"
    /\ LET p == pending[i]
           dup == DuplicateRows(store, p.symbol, p.signal_type, p.now)
           done(r) == /\ lastCall' = [symbol |-> p.symbol, signal_type |-> p.signal_type, at |-> p.now, result |-> r]
                      /\ pending' = [pending EXCEPT ![i] = NoPending]
       IN IF Cardinality(dup) > 1 THEN done("raised")
          ELSE IF dup # {} THEN done("duplicate")
          ELSE /\ pending' = [pending EXCEPT ![i].pc = "commit", ![i].stamp = clock]
               /\ UNCHANGED lastCall
    /\ UNCHANGED <<clock, store, calls>>

\* db.add(signal_record); await db.commit()
SaveSignalCommit(i) ==
    /\ pending[i].pc = "commit"
    /\ LET p == pending[i] IN
         /\ store' = store \cup {[id |-> p.id, symbol |-> p.symbol, signal_type |-> p.signal_type, timestamp |-> p.stamp]}
         /\ lastCall' = [symbol |-> p.symbol, signal_type |-> p.signal_type, at |-> p.now, result |-> "accepted"]
    /\ pending' = [pending EXCEPT ![i] = NoPending]
    /\ UNCHANGED <<clock, calls>>

\* Wall-clock time passes between calls.
ClockStep ==
    \E h \in {12, 24} :
        /\ clock + h <= MaxClock
        /\ clock' = clock + h
        /\ UNCHANGED <<store, calls, lastCall, pending>>

(***************************************************************************)
(* CacheKeys.screener(filters): json.dumps(filters, sort_keys=True), then  *)
(* the first 12 hex digits of its MD5, prefixed by "argus:screener:".      *)
(* Requests here carry distance_pct as a float: neg is its sign bit and    *)
(* hund its magnitude in hundredths (ScreenerRequest has ge=0, so only     *)
(* 0.0 can be negative, as -0.0).                                          *)
(***************************************************************************)
FieldNames == <<"ma_filter", "distance_pct", "include_below", "include_above",
                "sort_by", "sort_order", "limit", "offset">>

\* Rank of each field name in Python string order (sort_keys=True).
FieldRank ==
    "distance_pct" :> 1 @@ "include_above" :> 2 @@ "include_below" :> 3 @@
    "limit" :> 4 @@ "ma_filter" :> 5 @@ "offset" :> 6 @@ "sort_by" :> 7 @@
    "sort_order" :> 8

\* Field orders of the dict: model_dump's declaration order, its reverse,
\* and the sorted order.
FieldOrders ==
    { FieldNames,
      [i \in 1..8 |-> FieldNames[9 - i]],
      <<"distance_pct", "include_above", "include_below", "limit", "ma_filter",
        "offset", "sort_by", "sort_order">> }

\* repr(float) for a non-negative magnitude in hundredths, with sign bit.
FloatRepr(x) ==
    LET f == x.hund % 100
        frac == IF f % 10 = 0 THEN ToString(f \div 10)
                ELSE IF f < 10 THEN "0" \o ToString(f) ELSE ToString(f)
    IN (IF x.neg THEN "-" ELSE "") \o ToString(x.hund \div 100) \o "." \o frac

JsonBool(b) == IF b THEN "true" ELSE "false"

JsonStr(t) == "\"" \o t \o "\""

\* json.dumps of one value of request.model_dump() (str enums as strings).
JsonValue(req, f) ==
    CASE f = "ma_filter" -> JsonStr(req.ma_filter)
      [] f = "distance_pct" -> FloatRepr(req.distance_pct)
      [] f = "include_below" -> JsonBool(req.include_below)
      [] f = "include_above" -> JsonBool(req.include_above)
      [] f = "sort_by" -> JsonStr(req.sort_by)
      [] f = "sort_order" -> JsonStr(req.sort_order)
      [] f = "limit" -> ToString(req.limit)
      [] f = "offset" -> ToString(req.offset)

\* The dict handed to CacheKeys.screener, as its (key, value) items.
ModelDump(req, order) == [i \in 1..8 |-> <<order[i], JsonValue(req, order[i])>>]

RECURSIVE JoinItems(_)
JoinItems(items) ==
    IF items = <<>> THEN ""
    ELSE LET it == JsonStr(Head(items)[1]) \o ": " \o Head(items)[2]
         IN IF Len(items) = 1 THEN it ELSE it \o ", " \o JoinItems(Tail(items))

\* json.dumps(d): items in dict order, ", " and ": " separators.
JsonDumps(items) == "{" \o JoinItems(items) \o "}"

SortItems(items) ==
    [i \in 1..Len(items) |->
        CHOOSE it \in {items[k] : k \in 1..Len(items)} :
            Cardinality({k \in 1..Len(items) : FieldRank[items[k][1]] < FieldRank[it[1]]}) = i - 1]

\* json.dumps(d, sort_keys=True)
JsonDumpsSorted(items) == JsonDumps(SortItems(items))

\* hashlib.md5(s.encode()).hexdigest()[:12], tabulated for every string the
\* model serializes (computed with hashlib).
Md5Table ==
    ("{\"distance_pct\": 5.0, \"include_above\": true, \"include_below\": true, \"limit\": 100, \"ma_filter\": \"20W\", \"offset\": 0, \"sort_by\": \"distance\", \"sort_order\": \"asc\"}" :> "e3d2003be2e6")
 @@ ("{\"ma_filter\": \"20W\", \"distance_pct\": 5.0, \"include_below\": true, \"include_above\": true, \"sort_by\": \"distance\", \"sort_order\": \"asc\", \"limit\": 100, \"offset\": 0}" :> "67873b7e44a4")
 @@ ("{\"offset\": 0, \"limit\": 100, \"sort_order\": \"asc\", \"sort_by\": \"distance\", \"include_above\": true, \"include_below\": true, \"distance_pct\": 5.0, \"ma_filter\": \"20W\"}" :> "8f2b736a1f6f")
 @@ ("{\"distance_pct\": 5.0, \"include_above\": true, \"include_below\": true, \"limit\": 100, \"ma_filter\": \"50W\", \"offset\": 0, \"sort_by\": \"distance\", \"sort_order\": \"asc\"}" :> "bb1ddff352df")
 @@ ("{\"ma_filter\": \"50W\", \"distance_pct\": 5.0, \"include_below\": true, \"include_above\": true, \"sort_by\": \"distance\", \"sort_order\": \"asc\", \"limit\": 100, \"offset\": 0}" :> "4551463ad4bf")
 @@ ("{\"offset\": 0, \"limit\": 100, \"sort_order\": \"asc\", \"sort_by\": \"distance\", \"include_above\": true, \"include_below\": true, \"distance_pct\": 5.0, \"ma_filter\": \"50W\"}" :> "0bca2067902d")
 @@ ("{\"distance_pct\": 2.5, \"include_above\": true, \"include_below\": true, \"limit\": 100, \"ma_filter\": \"20W\", \"offset\": 0, \"sort_by\": \"distance\", \"sort_order\": \"asc\"}" :> "91675648b859")
 @@ ("{\"ma_filter\": \"20W\", \"distance_pct\": 2.5, \"include_below\": true, \"include_above\": true, \"sort_by\": \"distance\", \"sort_order\": \"asc\", \"limit\": 100, \"offset\": 0}" :> "1044d5989b33")
 @@ ("{\"offset\": 0, \"limit\": 100, \"sort_order\": \"asc\", \"sort_by\": \"distance\", \"include_above\": true, \"include_below\": true, \"distance_pct\": 2.5, \"ma_filter\": \"20W\"}" :> "9304433d5121")
 @@ ("{\"distance_pct\": 0.0, \"include_above\": true, \"include_below\": true, \"limit\": 100, \"ma_filter\": \"20W\", \"offset\": 0, \"sort_by\": \"distance\", \"sort_order\": \"asc\"}" :> "0bfd3d04f53a")
 @@ ("{\"ma_filter\": \"20W\", \"distance_pct\": 0.0, \"include_below\": true, \"include_above\": true, \"sort_by\": \"distance\", \"sort_order\": \"asc\", \"limit\": 100, \"offset\": 0}" :> "1750934cef4d")
 @@ ("{\"offset\": 0, \"limit\": 100, \"sort_order\": \"asc\", \"sort_by\": \"distance\", \"include_above\": true, \"include_below\": true, \"distance_pct\": 0.0, \"ma_filter\": \"20W\"}" :> "54857b802586")
 @@ ("{\"distance_pct\": -0.0, \"include_above\": true, \"include_below\": true, \"limit\": 100, \"ma_filter\": \"20W\", \"offset\": 0, \"sort_by\": \"distance\", \"sort_order\": \"asc\"}" :> "c06807a01275")
 @@ ("{\"ma_filter\": \"20W\", \"distance_pct\": -0.0, \"include_below\": true, \"include_above\": true, \"sort_by\": \"distance\", \"sort_order\": \"asc\", \"limit\": 100, \"offset\": 0}" :> "910413249fc9")
 @@ ("{\"offset\": 0, \"limit\": 100, \"sort_order\": \"asc\", \"sort_by\": \"distance\", \"include_above\": true, \"include_below\": true, \"distance_pct\": -0.0, \"ma_filter\": \"20W\"}" :> "c3c6373410ac")
 @@ ("{\"distance_pct\": 5.0, \"include_above\": true, \"include_below\": false, \"limit\": 100, \"ma_filter\": \"20W\", \"offset\": 0, \"sort_by\": \"distance\", \"sort_order\": \"asc\"}" :> "70046fdb5c3a")
 @@ ("{\"ma_filter\": \"20W\", \"distance_pct\": 5.0, \"include_below\": false, \"include_above\": true, \"sort_by\": \"distance\", \"sort_order\": \"asc\", \"limit\": 100, \"offset\": 0}" :> "552bd261c3c6")
 @@ ("{\"offset\": 0, \"limit\": 100, \"sort_order\": \"asc\", \"sort_by\": \"distance\", \"include_above\": true, \"include_below\": false, \"distance_pct\": 5.0, \"ma_filter\": \"20W\"}" :> "7cf301bfbcb0")
 @@ ("{\"distance_pct\": 5.0, \"include_above\": false, \"include_below\": true, \"limit\": 100, \"ma_filter\": \"20W\", \"offset\": 0, \"sort_by\": \"distance\", \"sort_order\": \"asc\"}" :> "726ef402b977")
 @@ ("{\"ma_filter\": \"20W\", \"distance_pct\": 5.0, \"include_below\": true, \"include_above\": false, \"sort_by\": \"distance\", \"sort_order\": \"asc\", \"limit\": 100, \"offset\": 0}" :> "d20ab76261eb")
 @@ ("{\"offset\": 0, \"limit\": 100, \"sort_order\": \"asc\", \"sort_by\": \"distance\", \"include_above\": false, \"include_below\": true, \"distance_pct\": 5.0, \"ma_filter\": \"20W\"}" :> "8cf253fc3810")
 @@ ("{\"distance_pct\": 5.0, \"include_above\": true, \"include_below\": true, \"limit\": 100, \"ma_filter\": \"20W\", \"offset\": 0, \"sort_by\": \"price\", \"sort_order\": \"asc\"}" :> "807bb843baef")
 @@ ("{\"ma_filter\": \"20W\", \"distance_pct\": 5.0, \"include_below\": true, \"include_above\": true, \"sort_by\": \"price\", \"sort_order\": \"asc\", \"limit\": 100, \"offset\": 0}" :> "8e45c999255f")
 @@ ("{\"offset\": 0, \"limit\": 100, \"sort_order\": \"asc\", \"sort_by\": \"price\", \"include_above\": true, \"include_below\": true, \"distance_pct\": 5.0, \"ma_filter\": \"20W\"}" :> "31520d195996")
 @@ ("{\"distance_pct\": 5.0, \"include_above\": true, \"include_below\": true, \"limit\": 100, \"ma_filter\": \"20W\", \"offset\": 0, \"sort_by\": \"distance\", \"sort_order\": \"desc\"}" :> "4c4a556957a1")
 @@ ("{\"ma_filter\": \"20W\", \"distance_pct\": 5.0, \"include_below\": true, \"include_above\": true, \"sort_by\": \"distance\", \"sort_order\": \"desc\", \"limit\": 100, \"offset\": 0}" :> "0012000375d7")
 @@ ("{\"offset\": 0, \"limit\": 100, \"sort_order\": \"desc\", \"sort_by\": \"distance\", \"include_above\": true, \"include_below\": true, \"distance_pct\": 5.0, \"ma_filter\": \"20W\"}" :> "23c26a5e692a")
 @@ ("{\"distance_pct\": 5.0, \"include_above\": true, \"include_below\": true, \"limit\": 1, \"ma_filter\": \"20W\", \"offset\": 0, \"sort_by\": \"distance\", \"sort_order\": \"asc\"}" :> "18e142b3cf6e")
 @@ ("{\"ma_filter\": \"20W\", \"distance_pct\": 5.0, \"include_below\": true, \"include_above\": true, \"sort_by\": \"distance\", \"sort_order\": \"asc\", \"limit\": 1, \"offset\": 0}" :> "ad5314b7890f")
 @@ ("{\"offset\": 0, \"limit\": 1, \"sort_order\": \"asc\", \"sort_by\": \"distance\", \"include_above\": true, \"include_below\": true, \"distance_pct\": 5.0, \"ma_filter\": \"20W\"}" :> "a79331fd20ca")
 @@ ("{\"distance_pct\": 5.0, \"include_above\": true, \"include_below\": true, \"limit\": 100, \"ma_filter\": \"20W\", \"offset\": 1, \"sort_by\": \"distance\", \"sort_order\": \"asc\"}" :> "b07fd44e99b6")
 @@ ("{\"ma_filter\": \"20W\", \"distance_pct\": 5.0, \"include_below\": true, \"include_above\": true, \"sort_by\": \"distance\", \"sort_order\": \"asc\", \"limit\": 100, \"offset\": 1}" :> "561a497371f3")
 @@ ("{\"offset\": 1, \"limit\": 100, \"sort_order\": \"asc\", \"sort_by\": \"distance\", \"include_above\": true, \"include_below\": true, \"distance_pct\": 5.0, \"ma_filter\": \"20W\"}" :> "ec4fb8f785f2")

Md5Hex12(t) == Md5Table[t]

\* A key built from json.dumps without sort_keys.
ScreenerKeyUnsorted(items) == "argus:screener:" \o Md5Hex12(JsonDumps(items))

\* CacheKeys.screener(filters)
ScreenerKey(items) == "argus:screener:" \o Md5Hex12(JsonDumpsSorted(items))

Flt(n, h) == [neg |-> n, hund |-> h]

KBase == [ma_filter |-> "20W", distance_pct |-> Flt(FALSE, 500), include_below |-> TRUE,
          include_above |-> TRUE, sort_by |-> "distance", sort_order |-> "asc",
          limit |-> 100, offset |-> 0]

\* The requests of the key model: the default request and variants that
\* change one field each; distance_pct 0.0 and -0.0 both pass ge=0.
KRequests ==
    { KBase,
      [KBase EXCEPT !.ma_filter = "50W"],
      [KBase EXCEPT !.distance_pct = Flt(FALSE, 250)],
      [KBase EXCEPT !.distance_pct = Flt(FALSE, 0)],
      [KBase EXCEPT !.distance_pct = Flt(TRUE, 0)],
      [KBase EXCEPT !.include_below = FALSE],
      [KBase EXCEPT !.include_above = FALSE],
      [KBase EXCEPT !.sort_by = "price"],
      [KBase EXCEPT !.sort_order = "desc"],
      [KBase EXCEPT !.limit = 1],
      [KBase EXCEPT !.offset = 1] }

KeyIdle ==
    /\ kReq1 = KBase /\ kReq2 = KBase /\ kOrd1 = FieldNames /\ kOrd2 = FieldNames
    /\ key1 = "" /\ key2 = "" /\ kPc = "idle"

KeyInit ==
    /\ kReq1 \in KRequests /\ kReq2 \in KRequests
    /\ kOrd1 \in FieldOrders /\ kOrd2 \in FieldOrders
    /\ key1 = "" /\ key2 = ""
    /\ kPc = "init"

\* screen computes cache_key = CacheKeys.screener(request.model_dump()).
ComputeKeys ==
    /\ kPc = "init"
    /\ key1' = ScreenerKey(ModelDump(kReq1, kOrd1))
    /\ key2' = ScreenerKey(ModelDump(kReq2, kOrd2))
    /\ kPc' = "done"
    /\ UNCHANGED <<kReq1, kReq2, kOrd1, kOrd2>>

\* ScreenerRequest() with its field defaults (distance_pct in hundredths).
DefaultRequest ==
    [ma_filter |-> "20W", distance_pct |-> 500, include_below |-> TRUE,
     include_above |-> TRUE, sort_by |-> "distance", sort_order |-> "asc",
     limit |-> 100, offset |-> 0]

\* A ScreenerResponse (cache_timestamp None when hasTimestamp is FALSE),
\* with the locals valid_results, filtered_results and sorted_results of
\* the run that built it.
NoResp ==
    [rows |-> <<>>, total |-> 0, cached |-> FALSE, hasTimestamp |-> FALSE,
     timestamp |-> 0, valid |-> <<>>, filtered |-> <<>>, sorted |-> <<>>]

(***************************************************************************)
(* Cache collaborator (services/cache.py) as seen by screen(): an entry    *)
(* per key holding the cached page, total and timestamp.                   *)
(***************************************************************************)
NoEntry == [present |-> FALSE, rows |-> <<>>, total |-> 0, timestamp |-> 0]

\* The requests of the cache model, from the key model's requests.
CRequests ==
    { KBase, [KBase EXCEPT !.limit = 1] }

\* ScreenerRequest as used by the pipeline (distance_pct in hundredths).
PipelineRequest(k) == [k EXCEPT !.distance_pct = k.distance_pct.hund]

CKeys == {ScreenerKey(ModelDump(r, FieldNames)) : r \in CRequests}

\* Concurrent callers of screen() (overlapping API requests).
CCallers == {1, 2}

CacheIdle ==
    /\ cache = [k \in CKeys |-> NoEntry] /\ cacheUp = TRUE
    /\ cMarket = <<>> /\ cCalls = 0 /\ cReq = [c \in CCallers |-> KBase]
    /\ cKey = [c \in CCallers |-> ""] /\ cResp = [c \in CCallers |-> NoResp]
    /\ cPc = [c \in CCallers |-> "idle"] /\ cFetched = [c \in CCallers |-> <<>>]
    /\ cId = [c \in CCallers |-> 0] /\ universeReads = 0 /\ stored = [k \in CKeys |-> NoResp]

(***************************************************************************)
(* detect_all_signals: one detect_signals_for_stock task per universe      *)
(* symbol behind asyncio.Semaphore(5), awaited with gather.                *)
(***************************************************************************)
SweepSize == 6          \* universe size of the sweep model
SweepConcurrency == 5   \* asyncio.Semaphore(5) in detect_all_signals

NoTotals == [errors |-> 0, detected |-> 0, saved |-> 0]

\* A task's value in gather's list: an exception, or (detected, saved).
TaskReturn(exc, d, sv) == [exc |-> exc, detected |-> d, saved |-> sv]

NoReturn == TaskReturn(FALSE, 0, 0)

SweepIdle ==
    /\ swOutcome = <<>> /\ swTask = <<>> /\ swSession = <<>>
    /\ swSaved = <<>> /\ swPc = "idle" /\ swResult = <<>> /\ swTotals = NoTotals

(***************************************************************************)
(* MarketDataService.get_quote / get_ohlcv / get_ohlcv_for_indicators:     *)
(* await asyncio.wait_for(asyncio.to_thread(sync_fetch, ...),              *)
(* timeout=settings.market_data_timeout); TimeoutError and any other       *)
(* Exception are logged and turned into None (quote) or [] (bars).  The    *)
(* worker thread cannot be cancelled and may finish after the timeout.     *)
(* market_data_max_retries is never read.                                  *)
(***************************************************************************)
MarketDataTimeout == 30 \* Settings.market_data_timeout
MdTickSeconds == 2      \* granularity of elapsed time in the market-data model

MdKinds == {"quote", "ohlcv", "indicators"}

NoMdOut == [result |-> "none", raised |-> FALSE]

MdIdle ==
    /\ mdKind = "quote" /\ mdPc = "idle" /\ mdElapsed = 0 /\ mdThread = "none"
    /\ mdAttempts = 0 /\ mdCause = "none" /\ mdOut = NoMdOut

CsKeys == {"AAPL"}          \* symbol; its CacheKeys.indicators(symbol, "1D") key

\* A call's outcome: val is what get returned (0: None) or the handler's
\* result, ok what set/delete returned, raised whether an exception reached
\* the caller, degraded whether the backend was disconnected or raised.
NoCsOp == [op |-> "none", key |-> "AAPL", val |-> 0, ok |-> FALSE, raised |-> FALSE, degraded |-> FALSE]

\* Concurrent requests to GET /{symbol}/indicators.
CsCallers == {1, 2}

\* A caller's request: pc "idle", "fetch" (awaiting get_ohlcv_for_indicators)
\* or "set" (awaiting cache.set); degraded whether its get was degraded;
\* fetched the market data its fetch read.
NoCsPend == [pc |-> "idle", key |-> "AAPL", degraded |-> FALSE, fetched |-> 0]

CsIdle ==
    /\ csRedis = "none" /\ csStore = [k \in CsKeys |-> 0] /\ csData = [k \in CsKeys |-> 1]
    /\ csOp = NoCsOp /\ csOut = 0 /\ csCalls = 0 /\ csPend = [c \in CsCallers |-> NoCsPend]

FnIdle == fnIn = 0 /\ fnOut = 0 /\ fnPc = "idle"

(***************************************************************************)
(* Fan-out of ScreenerService.screen: tasks = [process_with_limit(stock)   *)
(* for stock in universe]; asyncio.gather over the tasks (return_exceptions=True). *)
(* asyncio.Semaphore admits a waiter only while fewer than its initial     *)
(* value hold it; "async with" releases on return and on exception.        *)
(***************************************************************************)
PoolIdle ==
    /\ poolN = 0 /\ poolWaiting = 0 /\ poolEscapes = 0 /\ poolRunning = 0
    /\ poolDone = 0 /\ poolFailed = 0 /\ poolPc = "idle"

PoolInit ==
    /\ poolN \in 0..MaxUniverse
    /\ poolEscapes \in 0..(IF poolN < MaxEscapes THEN poolN ELSE MaxEscapes)
    /\ poolWaiting = poolN - poolEscapes
    /\ poolRunning = 0
    /\ poolDone = 0
    /\ poolFailed = 0
    /\ poolPc = "gather"

\* Semaphore without a ceiling (every task enters at once).
PoolAcquireUnbounded ==
    /\ poolPc = "gather"
    /\ poolWaiting > 0
    /\ poolWaiting' = poolWaiting - 1
    /\ poolRunning' = poolRunning + 1
    /\ UNCHANGED <<poolN, poolEscapes, poolDone, poolFailed, poolPc>>

\* "async with semaphore": a waiting task enters when a permit is free.
PoolAcquire ==
    /\ poolPc = "gather"
    /\ poolWaiting > 0
    /\ poolRunning < ScreenConcurrency
    /\ poolWaiting' = poolWaiting - 1
    /\ poolRunning' = poolRunning + 1
    /\ UNCHANGED <<poolN, poolEscapes, poolDone, poolFailed, poolPc>>

\* A task whose argument evaluation raises (stock["symbol"], stock["name"] read
\* inside "async with", before the await): it takes a free permit, raises
\* without suspending, and "async with" releases the permit in the same step.
PoolEscape ==
    /\ poolPc = "gather"
    /\ poolEscapes > 0
    /\ poolRunning < ScreenConcurrency
    /\ poolEscapes' = poolEscapes - 1
    /\ poolFailed' = poolFailed + 1
    /\ UNCHANGED <<poolN, poolWaiting, poolRunning, poolDone, poolPc>>

\* _process_stock returns (a row, None, or an exception escapes to gather);
\* leaving "async with" releases the permit.
PoolFinish ==
    /\ poolPc = "gather"
    /\ poolRunning > 0
    /\ poolRunning' = poolRunning - 1
    /\ poolDone' = poolDone + 1
    /\ UNCHANGED <<poolN, poolWaiting, poolEscapes, poolFailed, poolPc>>

\* asyncio.gather completes once every task has completed.
PoolGatherReturn ==
    /\ poolPc = "gather"
    /\ poolDone + poolFailed = poolN
    /\ poolPc' = "returned"
    /\ UNCHANGED <<poolN, poolWaiting, poolEscapes, poolRunning, poolDone, poolFailed>>

DedupIdle ==
    /\ clock = 0 /\ store = {} /\ calls = 0 /\ lastCall = NoCall
    /\ pending = [i \in DedupSlots |-> NoPending]

PoolNext ==
    \/ PoolAcquire
    \/ PoolEscape
    \/ PoolFinish
    \/ PoolGatherReturn

ScrIdle ==
    /\ scrReq = DefaultRequest /\ scrUniverse = <<>> /\ scrResults = <<>>
    /\ scrPc = "idle" /\ scrResp = NoResp

PoolSpecInit == DedupIdle /\ PoolInit /\ ScrIdle /\ KeyIdle /\ CacheIdle /\ SweepIdle /\ MdIdle /\ CsIdle /\ FnIdle

PoolStep == PoolNext /\ UNCHANGED <<dedupVars, scrVars, keyVars, cacheVars, sweepVars, mdVars, csVars, fnVars>>

SpecScreenPool == PoolSpecInit /\ [][PoolStep]_vars

DedupInit ==
    /\ clock = 0
    /\ store = {}
    /\ calls = 0
    /\ lastCall = NoCall
    /\ pending = [i \in DedupSlots |-> NoPending]
    /\ PoolIdle
    /\ ScrIdle
    /\ KeyIdle
    /\ CacheIdle /\ SweepIdle /\ MdIdle /\ CsIdle /\ FnIdle

DedupNext ==
    \/ \E i \in DedupSlots, s \in SigSymbols, t \in SigTypes : SaveSignalStart(i, s, t)
    \/ \E i \in DedupSlots : SaveSignalQuery(i)
    \/ \E i \in DedupSlots : SaveSignalCommit(i)
    \/ ClockStep

DedupStep == DedupNext /\ UNCHANGED <<poolVars, scrVars, keyVars, cacheVars, sweepVars, mdVars, csVars, fnVars>>

SpecDedup == DedupInit /\ [][DedupStep]_vars

(***************************************************************************)
(* Screening pipeline.  Distances are in hundredths of a percent (the      *)
(* engine rounds distance_percent to 2 decimals), so 0.5% is 50.  A        *)
(* universe row carries what the collaborators answer for its symbol:      *)
(* "ok", or the way it fails ("emptyBars", "timeoutBars": the bar fetch    *)
(* yields nothing; "noDistance": get_ma_distance returns None;             *)
(* "noQuote", "timeoutQuote": get_quote yields None; "raises": an          *)
(* exception inside _process_stock; "escapes": an exception leaving        *)
(* process_with_limit, which gather returns as a value).                   *)
(***************************************************************************)
ScrSize == 3            \* universe size of the pipeline models

Outcomes == {"ok", "emptyBars", "timeoutBars", "noDistance", "noQuote",
             "timeoutQuote", "raises", "escapes"}

SortFields == {"symbol", "name", "price", "distance", "market_cap", "change"}

Abs(x) == IF x < 0 THEN -x ELSE x

\* Classification with the band edge included.
PositionInclusive(d) ==
    IF Abs(d) <= 50 THEN "at"
    ELSE IF d > 0 THEN "above"
    ELSE "below"

\* Position relative to the MA: _process_stock lines 67-73.
Position(d) ==
    IF Abs(d) < 50 THEN "at"
    ELSE IF d > 0 THEN "above"
    ELSE "below"

\* An entry of gather's result list: kind "pending" (task not finished),
\* "row" (a ScreenerResult), "none" (None) or "exception".
NoRow == [sym |-> 0, name |-> 0, price |-> 0, change |-> 0, hasMcap |-> FALSE,
          mcap |-> 0, dist |-> 0, position |-> "none"]

Res(kind, row) == [kind |-> kind, row |-> row]

\* _process_stock without the "if not quote: return None" guard.
ProcessStockResultNoQuoteGuard(stock) ==
    CASE stock.outcome \in {"emptyBars", "timeoutBars"} -> Res("none", NoRow)
      [] stock.outcome = "noDistance" -> Res("none", NoRow)
      [] stock.outcome = "raises" -> Res("none", NoRow)
      [] stock.outcome = "escapes" -> Res("exception", NoRow)
      [] OTHER -> Res("row", [sym |-> stock.sym, name |-> stock.name, price |-> stock.price,
                   change |-> stock.change, hasMcap |-> stock.hasMcap,
                   mcap |-> stock.mcap, dist |-> stock.dist,
                   position |-> Position(stock.dist)])

\* ScreenerService._process_stock(symbol, name, sector, ma_filter)
ProcessStockResult(stock) ==
    CASE stock.outcome \in {"emptyBars", "timeoutBars"} -> Res("none", NoRow)
      [] stock.outcome = "noDistance" -> Res("none", NoRow)
      [] stock.outcome \in {"noQuote", "timeoutQuote"} -> Res("none", NoRow)
      [] stock.outcome = "raises" -> Res("none", NoRow)
      [] stock.outcome = "escapes" -> Res("exception", NoRow)
      [] OTHER -> Res("row", [sym |-> stock.sym, name |-> stock.name, price |-> stock.price,
                   change |-> stock.change, hasMcap |-> stock.hasMcap,
                   mcap |-> stock.mcap, dist |-> stock.dist,
                   position |-> Position(stock.dist)])

IsRow(r) == r.kind = "row"

\* valid_results: the ScreenerResult values of gather's list, in task order.
ValidResults(results) ==
    LET idx == {i \in 1..Len(results) : IsRow(results[i])}
        RECURSIVE Collect(_)
        Collect(k) == IF k > Len(results) THEN <<>>
                      ELSE IF k \in idx THEN <<results[k].row>> \o Collect(k + 1)
                      ELSE Collect(k + 1)
    IN Collect(1)

\* A filter that forgets "at" when include_above is false.
KeepRowNoAt(req, r) ==
    /\ ~(Abs(r.dist) > req.distance_pct)
    /\ ~(r.position = "below" /\ ~req.include_below)
    /\ ~(r.position = "above" /\ ~req.include_above)

\* The distance / position filter of screen (lines 148-160).
KeepRow(req, r) ==
    /\ ~(Abs(r.dist) > req.distance_pct)
    /\ ~(r.position = "below" /\ ~req.include_below)
    /\ ~(r.position \in {"above", "at"} /\ ~req.include_above)

FilterRows(req, rows) == SelectSeq(rows, LAMBDA r : KeepRow(req, r))

\* ScreenerService._get_sort_key(sort_by); "market_cap or 0"; the name and
\* symbol strings are represented by their rank in string order.
SortKey(sortBy, r) ==
    CASE sortBy = "symbol" -> r.sym
      [] sortBy = "name" -> r.name
      [] sortBy = "price" -> r.price
      [] sortBy = "distance" -> Abs(r.dist)
      [] sortBy = "market_cap" -> IF r.hasMcap THEN r.mcap ELSE 0
      [] sortBy = "change" -> r.change
      [] OTHER -> Abs(r.dist)

\* sorted(rows, key=..., reverse=...): a stable sort; with reverse=True
\* equal keys still keep their input order.  Insertion of each input row,
\* in input order, before the first row that must come after it.
RECURSIVE InsertRow(_, _, _, _)
InsertRow(sorted, x, sortBy, desc) ==
    IF sorted = <<>> THEN <<x>>
    ELSE LET h == Head(sorted)
             after == IF desc THEN SortKey(sortBy, h) < SortKey(sortBy, x)
                      ELSE SortKey(sortBy, h) > SortKey(sortBy, x)
         IN IF after THEN <<x>> \o sorted
            ELSE <<h>> \o InsertRow(Tail(sorted), x, sortBy, desc)

RECURSIVE SortFrom(_, _, _, _)
SortFrom(acc, rest, sortBy, desc) ==
    IF rest = <<>> THEN acc
    ELSE SortFrom(InsertRow(acc, Head(rest), sortBy, desc), Tail(rest), sortBy, desc)

\* Descending order obtained by reversing the ascending sort (ties reversed).
SortRowsReversed(rows, sortBy, desc) ==
    IF desc THEN LET a == SortFrom(<<>>, rows, sortBy, FALSE)
                 IN [i \in 1..Len(a) |-> a[Len(a) + 1 - i]]
    ELSE SortFrom(<<>>, rows, sortBy, FALSE)

SortRows(rows, sortBy, desc) == SortFrom(<<>>, rows, sortBy, desc)

Min(a, b) == IF a < b THEN a ELSE b
Max(a, b) == IF a > b THEN a ELSE b

\* Python slice s[a:b] for 0 <= a, 0 <= b.
PySlice(s, a, b) ==
    LET lo == Min(a, Len(s))
        hi == Max(lo, Min(b, Len(s)))
    IN [i \in 1..(hi - lo) |-> s[lo + i]]

\* paginated = sorted_results[offset : offset + limit]
PaginateLimitOnly(s, req) == PySlice(s, req.offset, req.limit)

Paginate(s, req) == PySlice(s, req.offset, req.offset + req.limit)

\* The part of screen after gather (lines 142-190) on a cache miss.
ScreenResponse(req, results) ==
    LET valid == ValidResults(results)
        filtered == FilterRows(req, valid)
        sorted == SortRows(filtered, req.sort_by, req.sort_order = "desc")
    IN [rows |-> Paginate(sorted, req), total |-> Len(sorted), cached |-> FALSE,
        hasTimestamp |-> FALSE, timestamp |-> 0,
        valid |-> valid, filtered |-> filtered, sorted |-> sorted]

\* screen: build the tasks (one per universe entry) and await gather.
ScrInit(outcomes, profiles, dpcts, belows, aboves, sorts, orders, limits, offsets) ==
    /\ scrReq \in [ma_filter : {"20W"}, distance_pct : dpcts,
                   include_below : belows, include_above : aboves,
                   sort_by : sorts, sort_order : orders,
                   limit : limits, offset : offsets]
    /\ \E outs \in [1..ScrSize -> outcomes], profs \in [1..ScrSize -> profiles] :
          scrUniverse = [i \in 1..ScrSize |-> [sym |-> i, outcome |-> outs[i]] @@ profs[i]]
    /\ scrResults = [i \in 1..ScrSize |-> Res("pending", NoRow)]
    /\ scrPc = "gather"
    /\ scrResp = NoResp

\* One task finishes: process_with_limit(stock) for universe entry i.
ScrProcess(i) ==
    /\ scrPc = "gather"
    /\ scrResults[i].kind = "pending"
    /\ scrResults' = [scrResults EXCEPT ![i] = ProcessStockResult(scrUniverse[i])]
    /\ UNCHANGED <<scrReq, scrUniverse, scrPc, scrResp>>

\* gather returns; screen filters, sorts, paginates and returns.
ScrFinish ==
    /\ scrPc = "gather"
    /\ \A i \in 1..ScrSize : scrResults[i].kind # "pending"
    /\ scrPc' = "done"
    /\ scrResp' = ScreenResponse(scrReq, scrResults)
    /\ UNCHANGED <<scrReq, scrUniverse, scrResults>>

\* The same with the rows collected in completion order (as asyncio.as_completed
\* would give them) instead of gather's task order.
ScrNextAsCompleted ==
    \/ \E i \in 1..ScrSize :
          /\ scrPc = "gather"
          /\ scrResults[i].kind = "pending"
          /\ scrResults' = [scrResults EXCEPT ![i] = ProcessStockResult(scrUniverse[i])]
          /\ scrResp' = IF IsRow(ProcessStockResult(scrUniverse[i]))
                        THEN [scrResp EXCEPT !.valid = Append(@, ProcessStockResult(scrUniverse[i]).row)]
                        ELSE scrResp
          /\ UNCHANGED <<scrReq, scrUniverse, scrPc>>
    \/ /\ scrPc = "gather"
       /\ \A i \in 1..ScrSize : scrResults[i].kind # "pending"
       /\ scrPc' = "done"
       /\ scrResp' = ScreenResponse(scrReq, [k \in 1..Len(scrResp.valid) |-> Res("row", scrResp.valid[k])])
       /\ UNCHANGED <<scrReq, scrUniverse, scrResults>>

ScrNext ==
    \/ \E i \in 1..ScrSize : ScrProcess(i)
    \/ ScrFinish

ScrStep == ScrNext /\ UNCHANGED <<dedupVars, poolVars, keyVars, cacheVars, sweepVars, mdVars, csVars, fnVars>>

\* Universe profiles: name rank, price, distance, market cap, change%.
Prof(n, p, d, hm, m, c) ==
    [name |-> n, price |-> p, dist |-> d, hasMcap |-> hm, mcap |-> m, change |-> c]

DefaultProfile == Prof(1, 100, -120, TRUE, 5, 1)

\* C3: every failure kind per symbol, default request.
InitScreenFail ==
    /\ DedupIdle /\ PoolIdle /\ KeyIdle /\ CacheIdle /\ SweepIdle /\ MdIdle /\ CsIdle /\ FnIdle
    /\ ScrInit(Outcomes, {DefaultProfile},
               {500}, {TRUE}, {TRUE}, {"distance"}, {"asc"}, {100}, {0})

SpecScreenFail == InitScreenFail /\ [][ScrStep]_vars

\* The event loop keeps running ready tasks, and every collaborator call is
\* bounded by asyncio.wait_for, so some step is taken while one is enabled.
SpecScreenFailFair == SpecScreenFail /\ WF_vars(ScrStep)

FilterDists == {-100, -50, -49, 0, 49, 50, 100}

\* C4, C5: distances around the 0.5% band and the threshold, every flag.
InitScreenFilter ==
    /\ DedupIdle /\ PoolIdle /\ KeyIdle /\ CacheIdle /\ SweepIdle /\ MdIdle /\ CsIdle /\ FnIdle
    /\ ScrInit({"ok"}, {Prof(1, 100, d, TRUE, 5, 1) : d \in FilterDists},
               {0, 50, 100}, BOOLEAN, BOOLEAN, {"distance"}, {"asc"}, {100}, {0})

SpecScreenFilter == InitScreenFilter /\ [][ScrStep]_vars

SortProfiles ==
    { Prof(1, 1, 60, FALSE, 0, 1), Prof(2, 1, -60, TRUE, 0, -1),
      Prof(1, 2, -30, TRUE, 1, 1), Prof(2, 2, 30, FALSE, 0, -1) }

\* C7: every sort key and order, with ties in every key.
InitScreenSort ==
    /\ DedupIdle /\ PoolIdle /\ KeyIdle /\ CacheIdle /\ SweepIdle /\ MdIdle /\ CsIdle /\ FnIdle
    /\ ScrInit({"ok"}, SortProfiles, {100}, {TRUE}, {TRUE}, SortFields,
               {"asc", "desc"}, {100}, {0})

SpecScreenSort == InitScreenSort /\ [][ScrStep]_vars

\* C28: rows that tie on the sort key, every failure kind, pages of 1 and 2.
OrderProfiles == {Prof(1, 100, -120, TRUE, 5, 1), Prof(2, 100, 120, TRUE, 5, 1)}

InitScreenOrder ==
    /\ DedupIdle /\ PoolIdle /\ KeyIdle /\ CacheIdle /\ SweepIdle /\ MdIdle /\ CsIdle /\ FnIdle
    /\ ScrInit({"ok", "noQuote", "escapes"}, OrderProfiles, {500}, {TRUE}, {TRUE},
               {"distance", "price"}, {"asc", "desc"}, {1, 2}, {0, 1})

SpecScreenOrder == InitScreenOrder /\ [][ScrStep]_vars

\* C6: limits and offsets around the filtered count.
InitScreenPage ==
    /\ DedupIdle /\ PoolIdle /\ KeyIdle /\ CacheIdle /\ SweepIdle /\ MdIdle /\ CsIdle /\ FnIdle
    /\ ScrInit({"ok", "noQuote"}, {Prof(1, 100, 20, TRUE, 5, 1), Prof(2, 100, 200, TRUE, 5, 1)},
               {100}, {TRUE}, {TRUE}, {"distance"}, {"asc", "desc"}, {1, 2}, {0, 1, 2, 3, 4})

SpecScreenPage == InitScreenPage /\ [][ScrStep]_vars

KeySpecInit == DedupIdle /\ PoolIdle /\ ScrIdle /\ KeyInit /\ CacheIdle /\ SweepIdle /\ MdIdle /\ CsIdle /\ FnIdle

KeyStep == ComputeKeys /\ UNCHANGED <<dedupVars, poolVars, scrVars, cacheVars, sweepVars, mdVars, csVars, fnVars>>

SpecCacheKey == KeySpecInit /\ [][KeyStep]_vars

(***************************************************************************)
(* screen() against the cache.  A call suspends at each await: cache get,  *)
(* get_universe, each symbol's fetches inside gather, and cache set; other *)
(* callers, the cache backend and the market move in between.             *)
(***************************************************************************)
MaxScreenCalls == 2     \* screen() calls explored by the cache model
CSize == 2              \* universe size of the cache model

CDists == {20, 100}

\* The universe with the given market data, all symbols answering.
CUniverse(market) ==
    [i \in 1..CSize |-> [sym |-> i, outcome |-> "ok"] @@ Prof(1, 100, market[i], TRUE, 5, 1)]

\* The pipeline run of screen on a miss, for request r.
CFresh(r, market) ==
    ScreenResponse(PipelineRequest(r),
                   [i \in 1..CSize |-> ProcessStockResult(CUniverse(market)[i])])

\* cache_data with the full sorted list instead of the page.
CacheDataSorted(resp, ts) ==
    [present |-> TRUE, rows |-> resp.sorted, total |-> resp.total, timestamp |-> ts]

\* cache_data = {"results": paginated, "total": total, "timestamp": now}
CacheData(resp, ts) ==
    [present |-> TRUE, rows |-> resp.rows, total |-> resp.total, timestamp |-> ts]

\* ScreenerService.screen(db, request), lines 108-118: cache_key, then
\* "cached = await cache_service.get(cache_key)" (None when the backend
\* fails); a hit returns the cached page.
ScreenGet(c, r) ==
    /\ cPc[c] = "idle"
    /\ cCalls < MaxScreenCalls
    /\ LET key == ScreenerKey(ModelDump(r, FieldNames))
           entry == IF cacheUp THEN cache[key] ELSE NoEntry
       IN /\ cReq' = [cReq EXCEPT ![c] = r]
          /\ cKey' = [cKey EXCEPT ![c] = key]
          /\ cCalls' = cCalls + 1
          /\ cId' = [cId EXCEPT ![c] = cCalls + 1]
          /\ IF entry.present
             THEN /\ cResp' = [cResp EXCEPT ![c] =
                                 [NoResp EXCEPT !.rows = entry.rows, !.total = entry.total,
                                                !.cached = TRUE, !.hasTimestamp = TRUE,
                                                !.timestamp = entry.timestamp]]
                  /\ UNCHANGED cPc
             ELSE /\ cPc' = [cPc EXCEPT ![c] = "universe"]
                  /\ UNCHANGED cResp
    /\ UNCHANGED <<cache, cacheUp, cMarket, cFetched, universeReads, stored>>

\* universe = await UniverseManager.get_universe(db) (never empty here, so
\* initialize_universe is not called); the gather starts.
ScreenUniverse(c) ==
    /\ cPc[c] = "universe"
    /\ universeReads' = universeReads + 1
    /\ cPc' = [cPc EXCEPT ![c] = "gather"]
    /\ cFetched' = [cFetched EXCEPT ![c] = [i \in 1..CSize |-> 0]]
    /\ UNCHANGED <<cache, cacheUp, cMarket, cCalls, cReq, cKey, cResp, cId, stored>>

\* Symbol i's task of the gather reads its market data.
ScreenFetch(c, i) ==
    /\ cPc[c] = "gather"
    /\ cFetched[c][i] = 0
    /\ cFetched' = [cFetched EXCEPT ![c][i] = cMarket[i]]
    /\ UNCHANGED <<cache, cacheUp, cMarket, cCalls, cReq, cKey, cResp, cPc, cId, universeReads, stored>>

\* Lines 142-190: gather has returned; filter, sort and page the results,
\* "await cache_service.set(cache_key, cache_data, ...)" (a no-op when the
\* backend fails) and return the fresh page.
ScreenSet(c) ==
    /\ cPc[c] = "gather"
    /\ \A i \in 1..CSize : cFetched[c][i] # 0
    /\ LET resp == CFresh(cReq[c], cFetched[c])
           key == cKey[c]
       IN /\ cResp' = [cResp EXCEPT ![c] = resp]
          /\ IF cacheUp
             THEN /\ cache' = [cache EXCEPT ![key] = CacheData(resp, cCalls)]
                  /\ stored' = [stored EXCEPT ![key] = resp]
             ELSE UNCHANGED <<cache, stored>>
    /\ cPc' = [cPc EXCEPT ![c] = "idle"]
    /\ cFetched' = [cFetched EXCEPT ![c] = <<>>]
    /\ UNCHANGED <<cacheUp, cMarket, cCalls, cReq, cKey, cId, universeReads>>

\* The entry's TTL (CacheTTL.screener) runs out.
CacheExpire(k) ==
    /\ cache[k].present
    /\ cache' = [cache EXCEPT ![k] = NoEntry]
    /\ UNCHANGED <<cacheUp, cMarket, cCalls, cReq, cKey, cResp, cPc, cFetched, cId, universeReads, stored>>

\* The cache backend becomes unavailable or comes back.
CacheAvailability ==
    /\ cacheUp' = ~cacheUp
    /\ UNCHANGED <<cache, cMarket, cCalls, cReq, cKey, cResp, cPc, cFetched, cId, universeReads, stored>>

\* Market data moves.
MarketMove(i, d) ==
    /\ cMarket[i] # d
    /\ cMarket' = [cMarket EXCEPT ![i] = d]
    /\ UNCHANGED <<cache, cacheUp, cCalls, cReq, cKey, cResp, cPc, cFetched, cId, universeReads, stored>>

CacheInit ==
    /\ cache = [k \in CKeys |-> NoEntry] /\ cacheUp = TRUE
    /\ cMarket \in [1..CSize -> CDists]
    /\ cCalls = 0 /\ cReq = [c \in CCallers |-> KBase] /\ cKey = [c \in CCallers |-> ""]
    /\ cResp = [c \in CCallers |-> NoResp] /\ cPc = [c \in CCallers |-> "idle"]
    /\ cFetched = [c \in CCallers |-> <<>>] /\ cId = [c \in CCallers |-> 0]
    /\ universeReads = 0 /\ stored = [k \in CKeys |-> NoResp]

CacheNext ==
    \/ \E c \in CCallers, r \in CRequests : ScreenGet(c, r)
    \/ \E c \in CCallers : ScreenUniverse(c)
    \/ \E c \in CCallers, i \in 1..CSize : ScreenFetch(c, i)
    \/ \E c \in CCallers : ScreenSet(c)
    \/ \E k \in CKeys : CacheExpire(k)
    \/ CacheAvailability
    \/ \E i \in 1..CSize, d \in CDists : MarketMove(i, d)

CacheSpecInit == DedupIdle /\ PoolIdle /\ ScrIdle /\ KeyIdle /\ CacheInit /\ SweepIdle /\ MdIdle /\ CsIdle /\ FnIdle

CacheStep == CacheNext /\ UNCHANGED <<dedupVars, poolVars, scrVars, keyVars, sweepVars, mdVars, csVars, fnVars>>

SpecScreenCache == CacheSpecInit /\ [][CacheStep]_vars

(***************************************************************************)
(* detect_all_signals (tasks/detect_signals.py): process_stock(stock)      *)
(* enters the semaphore and runs detect_signals_for_stock(symbol), which   *)
(* fetches bars and quote, detects, and, when it has signals, opens its    *)
(* own AsyncSessionLocal() to save them; any exception is caught there and *)
(* the task returns (0, 0).  Waiters acquire the semaphore in FIFO order.  *)
(* A symbol's outcome: fail when the bar fetch is empty or fetching or     *)
(* detection raises; otherwise saves lists, per detected signal, what its  *)
(* save_signal call does: "saved" (returns a Signal), "dup" (returns None, *)
(* a duplicate within 24 h) or "raise".                                    *)
(***************************************************************************)
SwOut(f, sv) == [fail |-> f, saves |-> sv]

SweepRichTasks == SweepSize \div 2     \* tasks whose outcome ranges over every shape

SweepOutcomes ==
    {SwOut(TRUE, <<>>), SwOut(FALSE, <<>>), SwOut(FALSE, <<"saved">>),
     SwOut(FALSE, <<"saved", "dup">>), SwOut(FALSE, <<"saved", "raise">>)}

SweepOutcomesPlain == {SwOut(FALSE, <<"saved">>)}

\* The save_signal loop raised (caught by detect_signals_for_stock).
SaveRaises(o) == \E k \in 1..Len(o.saves) : o.saves[k] = "raise"

\* Of the first n save_signal calls of o, those that returned a Signal (each
\* committed its row) and whether one raised.
SavedAmong(o, n) == Cardinality({k \in 1..n : o.saves[k] = "saved"})
RaisedAmong(o, n) == \E k \in 1..n : o.saves[k] = "raise"

InFlight == {i \in 1..SweepSize : swTask[i] \in {"fetch", "saving", "closing"}}

\* Every task writing through one session opened for the whole sweep.
SessionShared(i) == 1

\* "async with AsyncSessionLocal() as db" inside task i: a session object
\* of its own, identified by the task.
SessionFor(i) == i

\* The first waiting task enters "async with semaphore".
SwAcquire ==
    /\ swPc = "gather"
    /\ \E i \in 1..SweepSize :
          /\ swTask[i] = "waiting"
          /\ \A j \in 1..(i - 1) : swTask[j] # "waiting"
          /\ Cardinality(InFlight) < SweepConcurrency
          /\ swTask' = [swTask EXCEPT ![i] = "fetch"]
    /\ UNCHANGED <<swOutcome, swSession, swSaved, swPc, swResult, swTotals>>

\* Bars, quote and detection done: a task without signals (or whose fetch
\* or detection raised) returns; a task with signals opens its session.
SwFetch(i) ==
    /\ swTask[i] = "fetch"
    /\ IF swOutcome[i].fail \/ swOutcome[i].saves = <<>>
       THEN /\ swTask' = [swTask EXCEPT ![i] = "done"]
            /\ swResult' = [swResult EXCEPT ![i] = TaskReturn(FALSE, 0, 0)]
            /\ UNCHANGED swSession
       ELSE /\ swTask' = [swTask EXCEPT ![i] = "saving"]
            /\ swSession' = [swSession EXCEPT ![i] = SessionFor(i)]
            /\ UNCHANGED swResult
    /\ UNCHANGED <<swOutcome, swSaved, swPc, swTotals>>

\* One iteration of "for signal in signals": result = await save_signal(db,
\* signal), which commits its row unless it is a duplicate; the loop leaves
\* the async with block after the last signal or when the call raises.
SwSave(i) ==
    /\ swTask[i] = "saving"
    /\ LET k == swSaved[i] + 1
       IN /\ swSaved' = [swSaved EXCEPT ![i] = k]
          /\ swTask' = IF swOutcome[i].saves[k] = "raise" \/ k = Len(swOutcome[i].saves)
                       THEN [swTask EXCEPT ![i] = "closing"]
                       ELSE swTask
    /\ UNCHANGED <<swOutcome, swSession, swPc, swResult, swTotals>>

\* Leaving "async with AsyncSessionLocal() as db" closes the session; the
\* task returns (detected, saved), or (0, 0) from "except Exception".
SwClose(i) ==
    /\ swTask[i] = "closing"
    /\ swTask' = [swTask EXCEPT ![i] = "done"]
    /\ swSession' = [swSession EXCEPT ![i] = 0]
    /\ swResult' = [swResult EXCEPT ![i] =
                       IF RaisedAmong(swOutcome[i], swSaved[i]) THEN TaskReturn(FALSE, 0, 0)
                       ELSE TaskReturn(FALSE, Len(swOutcome[i].saves), SavedAmong(swOutcome[i], swSaved[i]))]
    /\ UNCHANGED <<swOutcome, swSaved, swPc, swTotals>>

\* The loop over gather's results (lines 48-54): an exception counts as an
\* error, a tuple adds to signals_detected and signals_saved.
SweepTotals(res) ==
    LET RECURSIVE Acc(_)
        Acc(k) == IF k = 0 THEN NoTotals
                  ELSE LET t == Acc(k - 1) IN
                       IF res[k].exc THEN [t EXCEPT !.errors = @ + 1]
                       ELSE [t EXCEPT !.detected = @ + res[k].detected,
                                      !.saved = @ + res[k].saved]
    IN Acc(Len(res))

\* gather(return_exceptions=True) returns once every task is done.
SwGather ==
    /\ swPc = "gather"
    /\ \A i \in 1..SweepSize : swTask[i] = "done"
    /\ swPc' = "done"
    /\ swTotals' = SweepTotals(swResult)
    /\ UNCHANGED <<swOutcome, swTask, swSession, swSaved, swResult>>

SweepInit ==
    /\ swOutcome \in {o \in [1..SweepSize -> SweepOutcomes] :
                        \A i \in (SweepRichTasks + 1)..SweepSize : o[i] \in SweepOutcomesPlain}
    /\ swTask = [i \in 1..SweepSize |-> "waiting"]
    /\ swSession = [i \in 1..SweepSize |-> 0]
    /\ swSaved = [i \in 1..SweepSize |-> 0]
    /\ swPc = "gather"
    /\ swResult = [i \in 1..SweepSize |-> NoReturn]
    /\ swTotals = NoTotals

SweepNext ==
    \/ SwAcquire
    \/ \E i \in 1..SweepSize : SwFetch(i)
    \/ \E i \in 1..SweepSize : SwSave(i)
    \/ \E i \in 1..SweepSize : SwClose(i)
    \/ SwGather

SweepSpecInit == DedupIdle /\ PoolIdle /\ ScrIdle /\ KeyIdle /\ CacheIdle /\ SweepInit /\ MdIdle /\ CsIdle /\ FnIdle

SweepStep == SweepNext /\ UNCHANGED <<dedupVars, poolVars, scrVars, keyVars, cacheVars, mdVars, csVars, fnVars>>

SpecSweep == SweepSpecInit /\ [][SweepStep]_vars

\* A get_quote whose TimeoutError handler re-raises.
MdReturnReraise(kind, cause) ==
    CASE cause = "value" -> [result |-> "value", raised |-> FALSE]
      [] cause = "timeout" -> [result |-> "none", raised |-> TRUE]
      [] OTHER -> [result |-> "empty", raised |-> FALSE]

\* What the method returns for the way wait_for ended: the fetched value;
\* None / [] when the sync fetch found no data (it returns None or []),
\* raised (except Exception) or timed out (except asyncio.TimeoutError).
MdReturn(kind, cause) ==
    CASE cause = "value" -> [result |-> "value", raised |-> FALSE]
      [] OTHER -> [result |-> "empty", raised |-> FALSE]

MdInit ==
    /\ mdKind \in MdKinds /\ mdPc = "start" /\ mdElapsed = 0 /\ mdThread = "none"
    /\ mdAttempts = 0 /\ mdCause = "none" /\ mdOut = NoMdOut

\* The method is called: one asyncio.to_thread(fetch) inside wait_for.
MdCall ==
    /\ mdPc = "start"
    /\ mdPc' = "awaiting"
    /\ mdThread' = "running"
    /\ mdAttempts' = mdAttempts + 1
    /\ UNCHANGED <<mdKind, mdElapsed, mdCause, mdOut>>

MdTick ==
    /\ mdPc = "awaiting"
    /\ mdElapsed < MarketDataTimeout
    /\ mdElapsed' = IF mdElapsed + MdTickSeconds > MarketDataTimeout
                     THEN MarketDataTimeout ELSE mdElapsed + MdTickSeconds
    /\ UNCHANGED <<mdKind, mdPc, mdThread, mdAttempts, mdCause, mdOut>>

\* The worker thread finishes; if wait_for is still waiting it returns.
MdThreadDone(o) ==
    /\ mdThread = "running"
    /\ mdThread' = o
    /\ IF mdPc = "awaiting"
       THEN /\ mdPc' = "returned"
            /\ mdCause' = o
            /\ mdOut' = MdReturn(mdKind, o)
       ELSE UNCHANGED <<mdPc, mdCause, mdOut>>
    /\ UNCHANGED <<mdKind, mdElapsed, mdAttempts>>

\* wait_for's timeout expires while the thread still runs.
MdTimeout ==
    /\ mdPc = "awaiting"
    /\ mdThread = "running"
    /\ mdElapsed >= MarketDataTimeout
    /\ mdPc' = "returned"
    /\ mdCause' = "timeout"
    /\ mdOut' = MdReturn(mdKind, "timeout")
    /\ UNCHANGED <<mdKind, mdElapsed, mdThread, mdAttempts>>

MdNext ==
    \/ MdCall
    \/ MdTick
    \/ \E o \in {"value", "noData", "raises"} : MdThreadDone(o)
    \/ MdTimeout

MdSpecInit == DedupIdle /\ PoolIdle /\ ScrIdle /\ KeyIdle /\ CacheIdle /\ SweepIdle /\ MdInit /\ CsIdle /\ FnIdle

MdStep == MdNext /\ UNCHANGED <<dedupVars, poolVars, scrVars, keyVars, cacheVars, sweepVars, csVars, fnVars>>

SpecMarketData == MdSpecInit /\ [][MdStep]_vars

(***************************************************************************)
(* CacheService (services/cache.py): self._redis is None when disconnected *)
(* (redis disabled, or connect's ping failed); every Redis call is inside  *)
(* try/except Exception, which logs and returns None / False.              *)
(***************************************************************************)
MaxCsCalls == 4         \* CacheService calls explored
CsValues == {1, 2}      \* market data a symbol can have

\* IndicatorCalculator.calculate_all_indicators(symbol, ohlcv), as the
\* (non-empty) JSON value cached under the symbol's key.
IndicatorsOf(d) == 10 * d + 1

\* What the caller gets when NotFoundError("Indicator data", symbol) is raised.
NotFound == -1

\* get without the except clause: a failing Redis call raises to the caller.
CacheGetUncaught(k, fails) ==
    IF csRedis = "none" THEN [val |-> 0, raised |-> FALSE, degraded |-> TRUE]
    ELSE IF fails THEN [val |-> 0, raised |-> TRUE, degraded |-> TRUE]
    ELSE [val |-> csStore[k], raised |-> FALSE, degraded |-> FALSE]

\* CacheService.get(key), lines 59-71: None when disconnected, None when
\* the Redis call or json.loads raises, None when the key is absent.
CacheGet(k, fails) ==
    IF csRedis = "none" THEN [val |-> 0, raised |-> FALSE, degraded |-> TRUE]
    ELSE IF fails THEN [val |-> 0, raised |-> FALSE, degraded |-> TRUE]
    ELSE [val |-> csStore[k], raised |-> FALSE, degraded |-> FALSE]

\* CacheService.set(key, value, ttl), lines 73-84: False when disconnected
\* or when json.dumps / setex raises; a setex that raised may or may not
\* have reached the server (written).
CacheSet(k, v, fails, written) ==
    IF csRedis = "none"
    THEN [ok |-> FALSE, raised |-> FALSE, degraded |-> TRUE, store |-> csStore]
    ELSE IF fails
    THEN [ok |-> FALSE, raised |-> FALSE, degraded |-> TRUE,
          store |-> IF written THEN [csStore EXCEPT ![k] = v] ELSE csStore]
    ELSE [ok |-> TRUE, raised |-> FALSE, degraded |-> FALSE, store |-> [csStore EXCEPT ![k] = v]]

\* CacheService.delete(key), lines 86-96.
CacheDelete(k, fails, written) ==
    IF csRedis = "none"
    THEN [ok |-> FALSE, raised |-> FALSE, degraded |-> TRUE, store |-> csStore]
    ELSE IF fails
    THEN [ok |-> FALSE, raised |-> FALSE, degraded |-> TRUE,
          store |-> IF written THEN [csStore EXCEPT ![k] = 0] ELSE csStore]
    ELSE [ok |-> TRUE, raised |-> FALSE, degraded |-> FALSE, store |-> [csStore EXCEPT ![k] = 0]]

\* CacheService.connect(), lines 29-46: nothing when redis_enabled is off;
\* otherwise a new client replaces self._redis, and a failing ping sets
\* self._redis = None (also when a client was connected before).
CsConnect(enabled, up) ==
    /\ csCalls < MaxCsCalls
    /\ csRedis' = IF ~enabled THEN csRedis ELSE IF up THEN "conn" ELSE "none"
    /\ csOp' = [NoCsOp EXCEPT !.op = "connect"]
    /\ csCalls' = csCalls + 1
    /\ UNCHANGED <<csStore, csData, csOut, csPend>>

\* CacheService.disconnect(), lines 48-52: close() is awaited outside any
\* try, so when it raises the exception reaches the caller and _redis keeps
\* the client.
CsDisconnect(fails) ==
    /\ csRedis = "conn" /\ csCalls < MaxCsCalls
    /\ csRedis' = IF fails THEN "conn" ELSE "none"
    /\ csOp' = [NoCsOp EXCEPT !.op = "disconnect", !.raised = fails]
    /\ csCalls' = csCalls + 1
    /\ UNCHANGED <<csStore, csData, csOut, csPend>>

CsGetCall(k, fails) ==
    /\ csCalls < MaxCsCalls
    /\ LET g == CacheGet(k, fails)
       IN csOp' = [op |-> "get", key |-> k, val |-> g.val, ok |-> FALSE,
                   raised |-> g.raised, degraded |-> g.degraded]
    /\ csCalls' = csCalls + 1
    /\ UNCHANGED <<csRedis, csStore, csData, csOut, csPend>>

CsSetCall(k, v, fails, written) ==
    /\ csCalls < MaxCsCalls
    /\ LET r == CacheSet(k, v, fails, written)
       IN /\ csOp' = [op |-> "set", key |-> k, val |-> 0, ok |-> r.ok,
                      raised |-> r.raised, degraded |-> r.degraded]
          /\ csStore' = r.store
    /\ csCalls' = csCalls + 1
    /\ UNCHANGED <<csRedis, csData, csOut, csPend>>

CsDeleteCall(k, fails, written) ==
    /\ csCalls < MaxCsCalls
    /\ LET r == CacheDelete(k, fails, written)
       IN /\ csOp' = [op |-> "delete", key |-> k, val |-> 0, ok |-> r.ok,
                      raised |-> r.raised, degraded |-> r.degraded]
          /\ csStore' = r.store
    /\ csCalls' = csCalls + 1
    /\ UNCHANGED <<csRedis, csData, csOut, csPend>>

\* Calls not yet returned, so that started calls stay within MaxCsCalls.
CsInFlight == Cardinality({c \in CsCallers : csPend[c].pc # "idle"})

\* get_stock_indicators (api/v1/stock.py, lines 343-377), first step:
\* cached = await cache.get(cache_key); if cached: return it.
IndicatorsGet(c, s, getFails) ==
    /\ csPend[c].pc = "idle"
    /\ csCalls + CsInFlight < MaxCsCalls
    /\ LET g == CacheGet(s, getFails) IN
         IF g.val # 0
         THEN /\ csOp' = [op |-> "indicators", key |-> s, val |-> g.val, ok |-> FALSE,
                          raised |-> g.raised, degraded |-> g.degraded]
              /\ csOut' = g.val
              /\ csCalls' = csCalls + 1
              /\ UNCHANGED csPend
         ELSE /\ csPend' = [csPend EXCEPT ![c] = [pc |-> "fetch", key |-> s,
                                                  degraded |-> g.degraded, fetched |-> 0]]
              /\ UNCHANGED <<csOp, csOut, csCalls>>
    /\ UNCHANGED <<csRedis, csStore, csData>>

\* ohlcv = await market_data.get_ohlcv_for_indicators(symbol, "200W"):
\* the symbol's current data, or [] (no history, timeout or provider error,
\* all swallowed there); if not ohlcv: raise NotFoundError (HTTP 404).
IndicatorsFetch(c, empty) ==
    /\ csPend[c].pc = "fetch"
    /\ LET p == csPend[c] IN
         IF empty
         THEN /\ csOp' = [op |-> "indicators", key |-> p.key, val |-> 0, ok |-> FALSE,
                          raised |-> FALSE, degraded |-> p.degraded]
              /\ csOut' = NotFound
              /\ csCalls' = csCalls + 1
              /\ csPend' = [csPend EXCEPT ![c] = NoCsPend]
         ELSE /\ csPend' = [csPend EXCEPT ![c].pc = "set", ![c].fetched = csData[p.key]]
              /\ UNCHANGED <<csOp, csOut, csCalls>>
    /\ UNCHANGED <<csRedis, csStore, csData>>

\* indicators = calculate_all_indicators(symbol, ohlcv);
\* await cache.set(cache_key, indicators.model_dump(), ...); return indicators.
IndicatorsSet(c, setFails, written) ==
    /\ csPend[c].pc = "set"
    /\ LET p == csPend[c]
           fresh == IndicatorsOf(p.fetched)
           w == CacheSet(p.key, fresh, setFails, written)
       IN /\ csOp' = [op |-> "indicators", key |-> p.key, val |-> fresh, ok |-> w.ok,
                      raised |-> w.raised, degraded |-> p.degraded \/ w.degraded]
          /\ csOut' = fresh
          /\ csStore' = w.store
    /\ csCalls' = csCalls + 1
    /\ csPend' = [csPend EXCEPT ![c] = NoCsPend]
    /\ UNCHANGED <<csRedis, csData>>

\* The market data of a symbol changes.
CsDataMove(s, d) ==
    /\ csData[s] # d
    /\ csData' = [csData EXCEPT ![s] = d]
    /\ UNCHANGED <<csRedis, csStore, csOp, csOut, csCalls, csPend>>

CsInit ==
    /\ csRedis \in {"none", "conn"}
    /\ csStore \in [CsKeys -> {0} \cup {IndicatorsOf(d) : d \in CsValues}]
    /\ csData \in [CsKeys -> CsValues]
    /\ csOp = NoCsOp /\ csOut = 0 /\ csCalls = 0 /\ csPend = [c \in CsCallers |-> NoCsPend]

CsNext ==
    \/ \E en, up \in BOOLEAN : CsConnect(en, up)
    \/ \E f \in BOOLEAN : CsDisconnect(f)
    \/ \E k \in CsKeys, f \in BOOLEAN : CsGetCall(k, f)
    \/ \E k \in CsKeys, v \in {IndicatorsOf(d) : d \in CsValues}, f, w \in BOOLEAN :
           CsSetCall(k, v, f, w)
    \/ \E k \in CsKeys, f, w \in BOOLEAN : CsDeleteCall(k, f, w)
    \/ \E c \in CsCallers, s \in CsKeys, gf \in BOOLEAN : IndicatorsGet(c, s, gf)
    \/ \E c \in CsCallers, e \in BOOLEAN : IndicatorsFetch(c, e)
    \/ \E c \in CsCallers, sf, w \in BOOLEAN : IndicatorsSet(c, sf, w)
    \/ \E s \in CsKeys, d \in CsValues : CsDataMove(s, d)

CsSpecInit == DedupIdle /\ PoolIdle /\ ScrIdle /\ KeyIdle /\ CacheIdle /\ SweepIdle /\ MdIdle /\ CsInit /\ FnIdle

CsStep == CsNext /\ UNCHANGED <<dedupVars, poolVars, scrVars, keyVars, cacheVars, sweepVars, mdVars, fnVars>>

SpecCacheService == CsSpecInit /\ [][CsStep]_vars

(***************************************************************************)
(* datetime.isocalendar() as CPython computes it (Lib/_pydatetime.py):     *)
(* dates are proleptic Gregorian ordinals, 1 = Monday 0001-01-01.          *)
(***************************************************************************)
YearRange == 2020..2030  \* years the dates of the model fall in

IsLeap(y) == y % 4 = 0 /\ (y % 100 # 0 \/ y % 400 = 0)

\* _days_before_year(year)
DaysBeforeYear(y) == LET y1 == y - 1 IN y1 * 365 + y1 \div 4 - y1 \div 100 + y1 \div 400

\* _days_before_month(year, month)
DaysBeforeMonth(y, m) ==
    LET dbm == <<0, 31, 59, 90, 120, 151, 181, 212, 243, 273, 304, 334>>
    IN dbm[m] + (IF m > 2 /\ IsLeap(y) THEN 1 ELSE 0)

\* _ymd2ord(year, month, day)
Ymd2Ord(y, m, d) == DaysBeforeYear(y) + DaysBeforeMonth(y, m) + d

\* date.year of the date with ordinal n
YearOf(n) == CHOOSE y \in YearRange : DaysBeforeYear(y) < n /\ n <= DaysBeforeYear(y + 1)

\* date.weekday(): 0 = Monday
Weekday(n) == (n + 6) % 7

\* _isoweek1monday(year)
IsoWeek1Monday(y) ==
    LET firstday == Ymd2Ord(y, 1, 1)
        firstweekday == (firstday + 6) % 7
        week1monday == firstday - firstweekday
    IN IF firstweekday > 3 THEN week1monday + 7 ELSE week1monday

\* (iso.year, iso.week) of date.isocalendar()
IsoKey(n) ==
    LET y == YearOf(n)
        w1 == IsoWeek1Monday(y)
    IN IF n - w1 < 0
       THEN [year |-> y - 1, week |-> (n - IsoWeek1Monday(y - 1)) \div 7 + 1]
       ELSE IF (n - w1) \div 7 >= 52 /\ n >= IsoWeek1Monday(y + 1)
       THEN [year |-> y + 1, week |-> 1]
       ELSE [year |-> y, week |-> (n - w1) \div 7 + 1]

\* Python's comparison of (year, week) tuples
KeyLess(a, b) == a.year < b.year \/ (a.year = b.year /\ a.week < b.week)

(***************************************************************************)
(* _resample_to_weekly(ohlcv) (api/v1/stock.py): bars are appended to      *)
(* weekly[(iso.year, iso.week)] in input order; one OHLCV per key of       *)
(* sorted(weekly.keys()).                                                  *)
(***************************************************************************)
RECURSIVE SeqMax(_), SeqMin(_), SeqSum(_)
SeqMax(s) == IF Len(s) = 1 THEN Head(s) ELSE LET m == SeqMax(Tail(s)) IN IF Head(s) >= m THEN Head(s) ELSE m
SeqMin(s) == IF Len(s) = 1 THEN Head(s) ELSE LET m == SeqMin(Tail(s)) IN IF Head(s) <= m THEN Head(s) ELSE m
SeqSum(s) == IF s = <<>> THEN 0 ELSE Head(s) + SeqSum(Tail(s))

Field(bars, f) == [j \in 1..Len(bars) |-> bars[j][f]]

\* sorted() of a set of (year, week) keys ordered by week first.
RECURSIVE SortKeysByWeek(_)
SortKeysByWeek(S) ==
    IF S = {} THEN <<>>
    ELSE LET m == CHOOSE k \in S : \A j \in S : k = j \/ k.week < j.week \/ (k.week = j.week /\ k.year < j.year)
         IN <<m>> \o SortKeysByWeek(S \ {m})

\* sorted(weekly.keys())
RECURSIVE SortKeys(_)
SortKeys(S) ==
    IF S = {} THEN <<>>
    ELSE LET m == CHOOSE k \in S : \A j \in S : k = j \/ KeyLess(k, j)
         IN <<m>> \o SortKeys(S \ {m})

\* weekly[key]: the bars of the key, in input order
WeekBars(ohlcv, key) == SelectSeq(ohlcv, LAMBDA b : IsoKey(b.timestamp) = key)

ResampleToWeekly(ohlcv) ==
    IF ohlcv = <<>> THEN <<>>
    ELSE LET keys == SortKeys({IsoKey(ohlcv[j].timestamp) : j \in 1..Len(ohlcv)})
         IN [i \in 1..Len(keys) |->
                LET bars == WeekBars(ohlcv, keys[i])
                IN [timestamp |-> bars[Len(bars)].timestamp,
                    open |-> bars[1].open,
                    high |-> SeqMax(Field(bars, "high")),
                    low |-> SeqMin(Field(bars, "low")),
                    close |-> bars[Len(bars)].close,
                    volume |-> SeqSum(Field(bars, "volume"))]]

\* Daily bars of the model: an OHLCV on date ts with open p and range h.
MkBar(ts, p, h) == [timestamp |-> ts, open |-> p, high |-> p + h, low |-> p - h,
                    close |-> p + 1, volume |-> 10 * p + h]

MaxBars == 3            \* bars of the arbitrary inputs
BarPrices == {1, 2}
BarSpreads == {1, 2}

\* Fri 2025-12-26 (2025-W52), Wed 2025-12-31 and Fri 2026-01-02 (2026-W01),
\* Mon 2026-01-05 (2026-W02)
BarDates == {Ymd2Ord(2025, 12, 26), Ymd2Ord(2025, 12, 31), Ymd2Ord(2026, 1, 2), Ymd2Ord(2026, 1, 5)}

DailyBars == {MkBar(t, p, h) : t \in BarDates, p \in BarPrices, h \in BarSpreads}

\* Ten consecutive daily bars from a Monday (Mon 2025-12-29, Mon 2026-01-05).
TenDays(start) == [j \in 1..10 |-> MkBar(start + j - 1, j, 1 + (j % 3))]

ResampleInputs ==
    UNION {[1..n -> DailyBars] : n \in 0..MaxBars}
    \cup {TenDays(Ymd2Ord(2025, 12, 29)), TenDays(Ymd2Ord(2026, 1, 5))}

ResampleInit == fnIn \in ResampleInputs /\ fnOut = <<>> /\ fnPc = "init"

ResampleApply ==
    /\ fnPc = "init"
    /\ fnOut' = ResampleToWeekly(fnIn)
    /\ fnPc' = "done"
    /\ UNCHANGED fnIn

ResampleSpecInit == DedupIdle /\ PoolIdle /\ ScrIdle /\ KeyIdle /\ CacheIdle /\ SweepIdle /\ MdIdle /\ CsIdle /\ ResampleInit

ResampleStep == ResampleApply /\ UNCHANGED <<dedupVars, poolVars, scrVars, keyVars, cacheVars, sweepVars, mdVars, csVars>>

SpecResampleWeekly == ResampleSpecInit /\ [][ResampleStep]_vars

(***************************************************************************)
(* _resample_indicator_payload / _resample_series_to_week: each list       *)
(* field of an indicator payload holds (timestamp, value) items; value 0   *)
(* stands for None.                                                        *)
(***************************************************************************)
None == 0

\* A dict as a function on its keys: d[k] = v
Put(d, k, v) == [x \in DOMAIN d \cup {k} |-> IF x = k THEN v ELSE d[x]]

\* grouped[(iso.year, iso.week)] = (dt, value) only for the first item of a week.
RECURSIVE GroupFirstInWeek(_, _)
GroupFirstInWeek(s, g) ==
    IF s = <<>> THEN g
    ELSE LET k == IsoKey(Head(s).ts)
         IN GroupFirstInWeek(Tail(s), IF k \in DOMAIN g THEN g ELSE Put(g, k, Head(s)))

\* for item in series: grouped[(iso.year, iso.week)] = (dt, value)
RECURSIVE GroupByWeek(_, _)
GroupByWeek(s, g) ==
    IF s = <<>> THEN g
    ELSE GroupByWeek(Tail(s), Put(g, IsoKey(Head(s).ts), Head(s)))

\* _resample_series_to_week(series, week_keys, week_dates)
ResampleSeriesToWeek(series, weekKeys, weekDates) ==
    LET grouped == GroupByWeek(series, <<>>)
    IN [i \in 1..Len(weekKeys) |->
           IF weekKeys[i] \in DOMAIN grouped
           THEN [ts |-> weekDates[i], value |-> grouped[weekKeys[i]].value]
           ELSE [ts |-> weekDates[i], value |-> None]]

\* The list fields of the model_dump() of MovingAverageResult / RSIResult
\* ("values") and MACDResult ("macd_line", "signal_line", "histogram").
PayloadListFields == {"values", "macd_line", "signal_line", "histogram"}

\* _resample_indicator_payload(indicators, weekly_ohlcv): every payload's
\* non-empty list field is resampled; other fields are kept.
ResampleIndicatorPayload(indicators, weekly) ==
    IF weekly = <<>> THEN indicators
    ELSE LET weekKeys == [i \in 1..Len(weekly) |-> IsoKey(weekly[i].timestamp)]
             weekDates == [i \in 1..Len(weekly) |-> weekly[i].timestamp]
         IN [n \in DOMAIN indicators |->
                [f \in DOMAIN indicators[n] |->
                    IF f \in PayloadListFields /\ indicators[n][f] # <<>>
                    THEN ResampleSeriesToWeek(indicators[n][f], weekKeys, weekDates)
                    ELSE indicators[n][f]]]

MaxSeriesLen == 2       \* items of an indicator series
MaxChartBars == 2       \* daily bars handed to _resample_to_weekly
SeriesValues == {None, 1, 2}

SeriesItems == {[ts |-> t, value |-> v] : t \in BarDates, v \in SeriesValues}

\* ma_20w with any series; ma_200w with the empty series of a period longer
\* than the history (calculate_ma_result returns values=[]); macd with its
\* three series on the same timestamps, the histogram's values differing.
IndicatorPayloads ==
    {[n \in {"ma_20w", "ma_200w", "macd"} |->
         IF n = "ma_20w" THEN [period |-> 20, values |-> s]
         ELSE IF n = "ma_200w" THEN [period |-> 200, values |-> <<>>]
         ELSE [fast_period |-> 12, macd_line |-> s, signal_line |-> s,
               histogram |-> [i \in 1..Len(s) |-> [s[i] EXCEPT !.value = 2]]]]
     : s \in UNION {[1..m -> SeriesItems] : m \in 0..MaxSeriesLen}}

ChartBars == UNION {[1..m -> {MkBar(t, 1, 1) : t \in BarDates}] : m \in 0..MaxChartBars}

AlignInit ==
    /\ fnIn \in [bars : ChartBars, indicators : IndicatorPayloads]
    /\ fnOut = [weekly |-> <<>>, indicators |-> fnIn.indicators]
    /\ fnPc = "init"

\* weekly_ohlcv = _resample_to_weekly(sliced_ohlcv);
\* indicators = _resample_indicator_payload(indicators, weekly_ohlcv)
AlignApply ==
    /\ fnPc = "init"
    /\ LET weekly == ResampleToWeekly(fnIn.bars)
       IN fnOut' = [weekly |-> weekly, indicators |-> ResampleIndicatorPayload(fnIn.indicators, weekly)]
    /\ fnPc' = "done"
    /\ UNCHANGED fnIn

AlignSpecInit == DedupIdle /\ PoolIdle /\ ScrIdle /\ KeyIdle /\ CacheIdle /\ SweepIdle /\ MdIdle /\ CsIdle /\ AlignInit

AlignStep == AlignApply /\ UNCHANGED <<dedupVars, poolVars, scrVars, keyVars, cacheVars, sweepVars, mdVars, csVars>>

SpecIndicatorAlign == AlignSpecInit /\ [][AlignStep]_vars

(***************************************************************************)
(* Period-window slicing in get_stock_chart.  full_ohlcv comes from        *)
(* yfinance's history() in index (ascending) order; indicator series are   *)
(* computed on ohlcv_to_dataframe's sorted index, one item per row.        *)
(***************************************************************************)
MaxFullBars == 7        \* bars of full_ohlcv
FullDays == 1..4        \* the days bars fall on
PeriodDayChoices == {1, 2, 5}  \* PERIOD_DAYS values, scaled to the model
MacdFastPeriod == 2     \* fast_period, scaled from 12
MacdSlowPeriod == 3     \* slow_period, scaled from 26
MacdSignalPeriod == 2   \* signal_period, scaled from 9
\* calculate_macd_result's min_periods = slow_period + signal_period; the
\* MA periods keep the code's order 35 < 100 (20W) < 1000 (200W).
MacdMin == MacdSlowPeriod + MacdSignalPeriod
MaShort == 6            \* MA_PERIOD_MAP["20W"], scaled
MaLong == 7             \* MA_PERIOD_MAP["200W"], scaled

\* s[-n:] for n >= 1
PyTail(s, n) == IF n >= Len(s) THEN s ELSE SubSeq(s, Len(s) - n + 1, Len(s))

\* df.sort_index(): insertion sort on the timestamps
RECURSIVE InsertTs(_, _)
InsertTs(t, s) ==
    IF s = <<>> THEN <<t>>
    ELSE IF t <= Head(s) THEN <<t>> \o s ELSE <<Head(s)>> \o InsertTs(t, Tail(s))

RECURSIVE SortIndex(_)
SortIndex(s) == IF s = <<>> THEN <<>> ELSE InsertTs(Head(s), SortIndex(Tail(s)))

\* calculate_ma_result: [] when len(df) < period, else one (ts, value)
\* per row, None for the first period - 1 rows.
MaSeries(idx, period) ==
    IF Len(idx) < period THEN <<>>
    ELSE [j \in 1..Len(idx) |-> [ts |-> idx[j], value |-> IF j < period THEN None ELSE j]]

\* calculate_macd_result: [] for all three when len(df) < min_periods.
MacdSeries(idx) ==
    IF Len(idx) < MacdMin THEN <<>>
    ELSE [j \in 1..Len(idx) |-> [ts |-> idx[j], value |-> j]]

\* The indicators dict of get_stock_chart: list fields per payload.
ChartIndicators(full) ==
    LET idx == SortIndex([j \in 1..Len(full) |-> full[j].timestamp])
    IN [ma_20w |-> [values |-> MaSeries(idx, MaShort)],
        ma_200w |-> [values |-> MaSeries(idx, MaLong)],
        macd |-> [macd_line |-> MacdSeries(idx), signal_line |-> MacdSeries(idx),
                  histogram |-> MacdSeries(idx)]]

ListFields(n) == IF n = "macd" THEN {"macd_line", "signal_line", "histogram"} ELSE {"values"}

\* _slice_indicator_payload keeping the head instead of the tail.
SliceIndicatorPayloadHead(indicators, length) ==
    IF length <= 0 THEN indicators
    ELSE [n \in DOMAIN indicators |->
             [f \in DOMAIN indicators[n] |-> SubSeq(indicators[n][f], 1, Min(length, Len(indicators[n][f])))]]

\* _slice_indicator_payload(indicators, length): payload[field] = series[-length:]
SliceIndicatorPayload(indicators, length) ==
    IF length <= 0 THEN indicators
    ELSE [n \in DOMAIN indicators |->
             [f \in DOMAIN indicators[n] |-> PyTail(indicators[n][f], length)]]

\* sliced_ohlcv = full_ohlcv[-period_days:] if len(full_ohlcv) > period_days else full_ohlcv
SliceBars(full, periodDays) == IF Len(full) > periodDays THEN PyTail(full, periodDays) ELSE full

RECURSIVE AscendingDays(_)
AscendingDays(n) ==
    IF n = 0 THEN {<<>>}
    ELSE UNION {{s \o <<d>> : d \in {e \in FullDays : s = <<>> \/ e >= s[Len(s)]}} : s \in AscendingDays(n - 1)}

FullOhlcvs ==
    {[j \in 1..Len(s) |-> MkBar(s[j], 1, 1)] : s \in UNION {AscendingDays(n) : n \in 1..MaxFullBars}}

SliceInit ==
    /\ fnIn \in [full : FullOhlcvs, periodDays : PeriodDayChoices]
    /\ fnOut = [bars |-> <<>>, indicators |-> ChartIndicators(fnIn.full)]
    /\ fnPc = "init"

\* get_stock_chart, lines 164-198: indicators on full history, then the
\* bars and the indicators cut to the period.
SliceApply ==
    /\ fnPc = "init"
    /\ LET sliced == SliceBars(fnIn.full, fnIn.periodDays)
       IN fnOut' = [bars |-> sliced,
                    indicators |-> SliceIndicatorPayload(ChartIndicators(fnIn.full), Len(sliced))]
    /\ fnPc' = "done"
    /\ UNCHANGED fnIn

SliceSpecInit == DedupIdle /\ PoolIdle /\ ScrIdle /\ KeyIdle /\ CacheIdle /\ SweepIdle /\ MdIdle /\ CsIdle /\ SliceInit

SliceStep == SliceApply /\ UNCHANGED <<dedupVars, poolVars, scrVars, keyVars, cacheVars, sweepVars, mdVars, csVars>>

SpecPeriodSlice == SliceSpecInit /\ [][SliceStep]_vars

(***************************************************************************)
(* SignalDetector.detect_ma_crossover (core/signals.py).  Closes are small *)
(* integers, so close < SMA compares exactly as close * period < the sum   *)
(* of the window (the float mean of small integers is off by far less      *)
(* than 1 / period).                                                       *)
(***************************************************************************)
MaxCloses == 5          \* bars of the input
CloseValues == {1, 2, 3}
LookbackChoices == {1, 2}

\* MA_PERIOD_MAP, scaled to the model; "10W" is not a key of the map.
MaPeriodMap == [p20W |-> 2, p50W |-> 3]
MaKeys == {"p20W", "p50W", "p10W"}

\* MA_PERIOD_MAP.get(ma_period): 0 for None
MaPeriodOf(k) == IF k \in DOMAIN MaPeriodMap THEN MaPeriodMap[k] ELSE 0

\* sum of the closes of the window of bar j: rolling(window=period)
RECURSIVE WindowSum(_, _, _)
WindowSum(c, p, j) == IF p = 0 THEN 0 ELSE c[j] + WindowSum(c, p - 1, j - 1)

\* ma at bar j is present (not NaN): min_periods=period
MaPresent(p, j) == j >= p

\* sign of close - ma at bar j, as close * period - window sum
CloseVsMa(c, p, j) == c[j] * p - WindowSum(c, p, j)

\* for i in range(-lookback, 0): bars j = n + 1 + i and j - 1
RECURSIVE MaScan(_, _, _, _)
MaScan(c, p, j, n) ==
    IF j > n THEN "none"
    ELSE IF CloseVsMa(c, p, j - 1) < 0 /\ CloseVsMa(c, p, j) > 0 THEN "MA_CROSSOVER_BULLISH"
    ELSE IF CloseVsMa(c, p, j - 1) > 0 /\ CloseVsMa(c, p, j) < 0 THEN "MA_CROSSOVER_BEARISH"
    ELSE MaScan(c, p, j + 1, n)

DetectMaCrossover(c, key, lookback) ==
    LET period == MaPeriodOf(key)
        n == Len(c)
    IN IF period = 0 \/ n < period + lookback THEN "none"
       ELSE IF ~MaPresent(period, n) \/ ~MaPresent(period, n - 1) THEN "none"
       ELSE MaScan(c, period, n - lookback + 1, n)

CloseSeqs == UNION {[1..m -> CloseValues] : m \in 0..MaxCloses}

MaCrossInit ==
    /\ fnIn \in [closes : CloseSeqs, key : MaKeys, lookback : LookbackChoices]
    /\ fnOut = "none"
    /\ fnPc = "init"

MaCrossApply ==
    /\ fnPc = "init"
    /\ fnOut' = DetectMaCrossover(fnIn.closes, fnIn.key, fnIn.lookback)
    /\ fnPc' = "done"
    /\ UNCHANGED fnIn

MaCrossSpecInit == DedupIdle /\ PoolIdle /\ ScrIdle /\ KeyIdle /\ CacheIdle /\ SweepIdle /\ MdIdle /\ CsIdle /\ MaCrossInit

MaCrossStep == MaCrossApply /\ UNCHANGED <<dedupVars, poolVars, scrVars, keyVars, cacheVars, sweepVars, mdVars, csVars>>

SpecMaCrossover == MaCrossSpecInit /\ [][MaCrossStep]_vars

(***************************************************************************)
(* SignalDetector.detect_rsi_signal (core/signals.py) on the last two      *)
(* values of IndicatorCalculator.rsi(df["close"]); Absent is NaN.          *)
(***************************************************************************)
Absent == -1000   \* outside every value set of the models
RsiValues == {0, 29, 30, 31, 50, 69, 70, 71, 100}  \* RSI values in [0, 100] around the thresholds
RsiBarCounts == {13, 14, 15, 16}  \* len(ohlcv_list) around the minimum
OversoldThreshold == 30
OverboughtThreshold == 70

\* detect_rsi_signal with the oversold test prev > threshold.
DetectRsiSignalStrict(n, cur, prev) ==
    IF n < 15 THEN "none"
    ELSE IF cur = Absent THEN "none"
    ELSE LET p == IF prev # Absent THEN prev ELSE cur
         IN IF p > OversoldThreshold /\ cur < OversoldThreshold THEN "RSI_OVERSOLD"
            ELSE IF p <= OverboughtThreshold /\ cur > OverboughtThreshold THEN "RSI_OVERBOUGHT"
            ELSE "none"

DetectRsiSignal(n, cur, prev) ==
    IF n < 15 THEN "none"
    ELSE IF cur = Absent THEN "none"
    ELSE LET p == IF prev # Absent THEN prev ELSE cur
         IN IF p >= OversoldThreshold /\ cur < OversoldThreshold THEN "RSI_OVERSOLD"
            ELSE IF p <= OverboughtThreshold /\ cur > OverboughtThreshold THEN "RSI_OVERBOUGHT"
            ELSE "none"

RsiInit ==
    /\ fnIn \in [n : RsiBarCounts, cur : RsiValues \cup {Absent}, prev : RsiValues \cup {Absent}]
    /\ fnOut = "none"
    /\ fnPc = "init"

RsiApply ==
    /\ fnPc = "init"
    /\ fnOut' = DetectRsiSignal(fnIn.n, fnIn.cur, fnIn.prev)
    /\ fnPc' = "done"
    /\ UNCHANGED fnIn

RsiSpecInit == DedupIdle /\ PoolIdle /\ ScrIdle /\ KeyIdle /\ CacheIdle /\ SweepIdle /\ MdIdle /\ CsIdle /\ RsiInit

RsiStep == RsiApply /\ UNCHANGED <<dedupVars, poolVars, scrVars, keyVars, cacheVars, sweepVars, mdVars, csVars>>

SpecRsiSignal == RsiSpecInit /\ [][RsiStep]_vars

(***************************************************************************)
(* SignalDetector.detect_macd_signal (core/signals.py) on the last two     *)
(* values of the MACD and signal lines of IndicatorCalculator.macd.        *)
(***************************************************************************)
MacdLineValues == {-10, -5, 0, 5, 10}   \* MACD / previous signal values (multiples of 5)
MacdBarCounts == {34, 35, 36}     \* len(ohlcv_list) around the minimum
MacdSignalSpan == 9               \* macd(prices, signal_period=9)

\* signal_line = macd_line.ewm(span=9, adjust=False).mean() at the current
\* bar: (1 - alpha) * previous signal + alpha * current MACD, alpha = 2 / 10
\* (exact on the value set; pandas keeps the value when both are equal).
SignalNext(ps, cm) == ((MacdSignalSpan - 1) * ps + 2 * cm) \div (MacdSignalSpan + 1)

DetectMacdSignal(n, pm, cm, ps, cs) ==
    IF n < 35 THEN "none"
    ELSE IF cm = Absent \/ cs = Absent THEN "none"
    ELSE IF pm < ps /\ cm > cs THEN "MACD_BULLISH_CROSS"
    ELSE IF pm > ps /\ cm < cs THEN "MACD_BEARISH_CROSS"
    ELSE "none"

\* Previous MACD, previous signal and current MACD are free (the closes
\* before them are); the current signal follows from them.  A NaN MACD
\* (no non-NaN close yet) has a NaN signal.
MacdInit ==
    /\ \E n \in MacdBarCounts, pm, ps \in MacdLineValues, cm \in MacdLineValues \cup {Absent} :
          fnIn = [n |-> n, pm |-> pm, cm |-> cm, ps |-> ps,
                  cs |-> IF cm = Absent THEN Absent ELSE SignalNext(ps, cm)]
    /\ fnOut = "none"
    /\ fnPc = "init"

MacdApply ==
    /\ fnPc = "init"
    /\ fnOut' = DetectMacdSignal(fnIn.n, fnIn.pm, fnIn.cm, fnIn.ps, fnIn.cs)
    /\ fnPc' = "done"
    /\ UNCHANGED fnIn

MacdSpecInit == DedupIdle /\ PoolIdle /\ ScrIdle /\ KeyIdle /\ CacheIdle /\ SweepIdle /\ MdIdle /\ CsIdle /\ MacdInit

MacdStep == MacdApply /\ UNCHANGED <<dedupVars, poolVars, scrVars, keyVars, cacheVars, sweepVars, mdVars, csVars>>

SpecMacdSignal == MacdSpecInit /\ [][MacdStep]_vars

(***************************************************************************)
(* SignalDetector.detect_52w_signals (core/signals.py).  Away from the     *)
(* boundary pct = threshold_pct the float test pct <= threshold_pct agrees *)
(* with the exact one; at the boundary either result is possible.          *)
(***************************************************************************)
WPrices == {75, 78, 80, 82, 84, 86, 88, 90, 93, 95, 97, 100, 105, 110}
WHighs == {100, 90, 0, -10, Absent}   \* Absent: high_52w is None
WLows == {80, 84, 0, -10, Absent}     \* Absent: low_52w is None
WThresholds == {5, 7, 10}

\* "if high_52w:" (None and 0.0 are falsy)
Supplied(x) == x # Absent /\ x # 0

\* detect_52w_signals with the near-high test not excluding a new high.
\* d / b * 100 <= t computed in floats (b # 0): the exact comparison, except
\* that when d / b * 100 is exactly t the float may land on either side of
\* it (e.g. 7 / 100 * 100 is 7.000000000000001).
PctWithin(d, b, t) ==
    LET lhs == IF b > 0 THEN d * 100 ELSE -(d * 100)
        rhs == IF b > 0 THEN t * b ELSE -(t * b)
    IN IF lhs = rhs THEN BOOLEAN ELSE {lhs < rhs}

\* detect_52w_signals with the near-high test not excluding a new high.
Detect52wSignalsNoElif(price, high, low, t) ==
    LET HS == IF ~Supplied(high) THEN {<<>>}
              ELSE {(IF price >= high THEN <<"NEW_52W_HIGH">> ELSE <<>>)
                    \o (IF b THEN <<"NEAR_52W_HIGH">> ELSE <<>>) : b \in PctWithin(high - price, high, t)}
        LS == IF ~Supplied(low) THEN {<<>>}
              ELSE IF price <= low THEN {<<"NEW_52W_LOW">>}
              ELSE {IF b THEN <<"NEAR_52W_LOW">> ELSE <<>> : b \in PctWithin(price - low, low, t)}
    IN {hs \o ls : hs \in HS, ls \in LS}

\* the set of lists detect_52w_signals can return
Detect52wSignals(price, high, low, t) ==
    LET HS == IF ~Supplied(high) THEN {<<>>}
              ELSE IF price >= high THEN {<<"NEW_52W_HIGH">>}
              ELSE {IF b THEN <<"NEAR_52W_HIGH">> ELSE <<>> : b \in PctWithin(high - price, high, t)}
        LS == IF ~Supplied(low) THEN {<<>>}
              ELSE IF price <= low THEN {<<"NEW_52W_LOW">>}
              ELSE {IF b THEN <<"NEAR_52W_LOW">> ELSE <<>> : b \in PctWithin(price - low, low, t)}
    IN {hs \o ls : hs \in HS, ls \in LS}

WInit ==
    /\ fnIn \in [price : WPrices, high : WHighs, low : WLows, t : WThresholds]
    /\ fnOut = <<>>
    /\ fnPc = "init"

WApply ==
    /\ fnPc = "init"
    /\ fnOut' \in Detect52wSignals(fnIn.price, fnIn.high, fnIn.low, fnIn.t)
    /\ fnPc' = "done"
    /\ UNCHANGED fnIn

WSpecInit == DedupIdle /\ PoolIdle /\ ScrIdle /\ KeyIdle /\ CacheIdle /\ SweepIdle /\ MdIdle /\ CsIdle /\ WInit

WStep == WApply /\ UNCHANGED <<dedupVars, poolVars, scrVars, keyVars, cacheVars, sweepVars, mdVars, csVars>>

Spec52Week == WSpecInit /\ [][WStep]_vars

(***************************************************************************)
(* round(x, ndigits) on the reported indicator values, x the float the     *)
(* code computes for the exact value num / den (den > 0).  Away from a     *)
(* tie the result is the nearest multiple of 10^-d: the float of a         *)
(* non-tie value is not within 10^-15 of a rounding boundary for the       *)
(* small-integer inputs of the models.  At an exact tie the float's error  *)
(* decides the side, so both neighbours are possible (PyRoundSet).         *)
(***************************************************************************)
RECURSIVE Gcd(_, _)
Gcd(a, b) == IF b = 0 THEN a ELSE Gcd(b, a % b)

Norm(n, d) ==
    IF n = 0 THEN [n |-> 0, d |-> 1]
    ELSE LET g == Gcd(IF n < 0 THEN -n ELSE n, d) IN [n |-> n \div g, d |-> d \div g]

\* the first d decimal digits of r / b (0 <= r < b) and the remainder left
RECURSIVE FracDigits(_, _, _)
FracDigits(r, b, d) ==
    IF d = 0 THEN [q |-> 0, r |-> r]
    ELSE LET x == FracDigits(r, b, d - 1)
         IN [q |-> x.q * 10 + (x.r * 10) \div b, r |-> (x.r * 10) % b]

\* round(n / m, d), as a normalised [n, d]
PyRound(n, m, d) ==
    LET a == IF n < 0 THEN -n ELSE n
        f == FracDigits(a % m, m, d)
        k0 == (a \div m) * 10 ^ d + f.q
        k == IF 2 * f.r > m \/ (2 * f.r = m /\ k0 % 2 = 1) THEN k0 + 1 ELSE k0
    IN Norm(IF n < 0 THEN -k ELSE k, 10 ^ d)

\* round(x, d) of the float x computed for the exact value n / m: rint of
\* x * 10^d.  At an exact tie the float may lie on either side of it, so
\* both neighbours are possible; elsewhere it is the nearest one.
PyRoundSet(n, m, d) ==
    LET a == IF n < 0 THEN -n ELSE n
        f == FracDigits(a % m, m, d)
        k0 == (a \div m) * 10 ^ d + f.q
    IN IF 2 * f.r = m
       THEN {Norm(IF n < 0 THEN -k0 ELSE k0, 10 ^ d), Norm(IF n < 0 THEN -(k0 + 1) ELSE k0 + 1, 10 ^ d)}
       ELSE {PyRound(n, m, d)}

\* round(val, d) if pd.notna(val) else None, on a [present, num, den] value
RoundVal(v, d) ==
    IF ~v.present THEN v
    ELSE LET r == PyRound(v.num, v.den, d) IN [present |-> TRUE, num |-> r.n, den |-> r.d]

\* the same, for a val computed in floats
RoundValSet(v, d) ==
    IF ~v.present THEN {v}
    ELSE {[present |-> TRUE, num |-> r.n, den |-> r.d] : r \in PyRoundSet(v.num, v.den, d)}

\* the sequences taking their j-th element from ss[j]
RECURSIVE SeqChoices(_)
SeqChoices(ss) ==
    IF Len(ss) = 0 THEN {<<>>}
    ELSE {Append(t, x) : t \in SeqChoices(SubSeq(ss, 1, Len(ss) - 1)), x \in ss[Len(ss)]}

(***************************************************************************)
(* IndicatorCalculator.rsi / calculate_rsi_result (core/indicators.py) in  *)
(* exact arithmetic.  delta = prices.diff() is NaN at the first bar, and   *)
(* delta.where(delta > 0, 0.0) turns that NaN into 0.0 in gain and loss.   *)
(* A present value is num / den.                                           *)
(***************************************************************************)
RsiPeriods == {2, 3}    \* RSI periods, scaled from the default 14

NoRsi == [present |-> FALSE, num |-> 0, den |-> 1]

\* gain / loss of bar j (1-based)
Gain(c, j) == IF j = 1 THEN 0 ELSE IF c[j] - c[j - 1] > 0 THEN c[j] - c[j - 1] ELSE 0
Loss(c, j) == IF j = 1 THEN 0 ELSE IF c[j] - c[j - 1] < 0 THEN c[j - 1] - c[j] ELSE 0

RECURSIVE GainSum(_, _, _), LossSum(_, _, _)
GainSum(c, p, j) == IF p = 0 THEN 0 ELSE Gain(c, j) + GainSum(c, p - 1, j - 1)
LossSum(c, p, j) == IF p = 0 THEN 0 ELSE Loss(c, j) + LossSum(c, p - 1, j - 1)

\* rsi at bar j: rolling(window=period, min_periods=period) means of gain
\* and loss; rs = avg_gain / avg_loss (inf when avg_loss = 0);
\* 100 - 100 / (1 + rs) = 100 g / (g + l); masked to 50 when both are 0.
RsiAt(c, p, j) ==
    IF j < p THEN NoRsi
    ELSE LET g == GainSum(c, p, j)
             l == LossSum(c, p, j)
         IN IF g = 0 /\ l = 0 THEN [present |-> TRUE, num |-> 50, den |-> 1]
            ELSE IF l = 0 THEN [present |-> TRUE, num |-> 100, den |-> 1]
            ELSE [present |-> TRUE, num |-> 100 * g, den |-> g + l]

RsiSeriesOf(c, p) == [j \in 1..Len(c) |-> RsiAt(c, p, j)]

\* current_rsi > bound (above) or < bound on the float of cur: either way
\* when cur is exactly the bound (then rs is finite and nonzero)
RsiFlagSet(cur, bound, above) ==
    IF ~cur.present THEN {FALSE}
    ELSE IF cur.num = bound * cur.den THEN BOOLEAN
    ELSE {IF above THEN cur.num > bound * cur.den ELSE cur.num < bound * cur.den}

\* calculate_rsi_result(df, period), the set of results the floats can give;
\* current_value rounds the same float as the last value
CalculateRsiResult(c, p) ==
    IF Len(c) = 0 \/ Len(c) < p + 1
    THEN {[values |-> <<>>, current |-> NoRsi, overbought |-> FALSE, oversold |-> FALSE]}
    ELSE LET s == RsiSeriesOf(c, p)
             cur == s[Len(c)]
         IN {[values |-> vs, current |-> vs[Len(vs)], overbought |-> ob, oversold |-> os] :
               vs \in SeqChoices([j \in 1..Len(s) |-> RoundValSet(s[j], 2)]),
               ob \in RsiFlagSet(cur, 70, TRUE), os \in RsiFlagSet(cur, 30, FALSE)}

\* RSI exactly 45/8 and 65/8 (ties at 2 decimals), 70 and 30 (the flag bounds)
RsiTieInputs ==
    {[closes |-> <<151, 160, 9>>, period |-> 2], [closes |-> <<147, 160, 13>>, period |-> 2],
     [closes |-> <<1, 8, 5>>, period |-> 2], [closes |-> <<5, 8, 1>>, period |-> 2]}

RsiCalcInit ==
    /\ fnIn \in [closes : CloseSeqs, period : RsiPeriods] \cup RsiTieInputs
    /\ fnOut = [values |-> <<>>, current |-> NoRsi, overbought |-> FALSE, oversold |-> FALSE]
    /\ fnPc = "init"

RsiCalcApply ==
    /\ fnPc = "init"
    /\ fnOut' \in CalculateRsiResult(fnIn.closes, fnIn.period)
    /\ fnPc' = "done"
    /\ UNCHANGED fnIn

RsiCalcSpecInit == DedupIdle /\ PoolIdle /\ ScrIdle /\ KeyIdle /\ CacheIdle /\ SweepIdle /\ MdIdle /\ CsIdle /\ RsiCalcInit

RsiCalcStep == RsiCalcApply /\ UNCHANGED <<dedupVars, poolVars, scrVars, keyVars, cacheVars, sweepVars, mdVars, csVars>>

SpecRsiCalc == RsiCalcSpecInit /\ [][RsiCalcStep]_vars

(***************************************************************************)
(* IndicatorCalculator.moving_average / calculate_ma_result /              *)
(* get_ma_distance (core/indicators.py) in exact arithmetic: a present     *)
(* value is num / den; the reported values are rounded to 2 decimals.     *)
(***************************************************************************)
MaCloseValues == {0, 1, 2, 3}   \* closes, 0.0 included (falsy)
MaxMaCloses == 4                \* bars of the arbitrary inputs
MaPeriods == {2, 3}             \* MA periods, scaled

NoVal == [present |-> FALSE, num |-> 0, den |-> 1]

\* prices.rolling(window=period, min_periods=period).mean()
SmaAtEarly(c, p, j) ==
    IF j < p - 1 THEN NoVal ELSE [present |-> TRUE, num |-> WindowSum(c, Min(p, j), j), den |-> Min(p, j)]

SmaAt(c, p, j) ==
    IF j < p THEN NoVal ELSE [present |-> TRUE, num |-> WindowSum(c, p, j), den |-> p]

\* prices.ewm(span=period, adjust=False).mean(): y1 = x1,
\* y_j = (1 - a) y_(j-1) + a x_j with a = 2 / (period + 1), as num / (p+1)^(j-1)
RECURSIVE EmaNum(_, _, _)
EmaNum(c, p, j) ==
    IF j = 1 THEN c[1]
    ELSE (p - 1) * EmaNum(c, p, j - 1) + 2 * c[j] * (p + 1) ^ (j - 2)

\* ... with min_periods=period
EmaAt(c, p, j) ==
    IF j < p THEN NoVal ELSE [present |-> TRUE, num |-> EmaNum(c, p, j), den |-> (p + 1) ^ (j - 1)]

MovingAverage(c, p, type) ==
    [j \in 1..Len(c) |-> IF type = "sma" THEN SmaAt(c, p, j) ELSE EmaAt(c, p, j)]

NoMaResult == [values |-> <<>>, current |-> NoVal, price |-> NoVal, distance |-> NoVal]

\* calculate_ma_result(df, period) (SMA), the set of results the floats can
\* give: current_value / current_price are None when falsy, distance only
\* when both are truthy; current_value rounds the same float as the last
\* value, the price is an integer close.
CalculateMaResult(c, p) ==
    IF Len(c) = 0 \/ Len(c) < p THEN {NoMaResult}
    ELSE LET s == MovingAverage(c, p, "sma")
             ma == s[Len(c)]
             price == c[Len(c)]
             maTruthy == ma.present /\ ma.num # 0
         IN {[values |-> vs,
              current |-> IF maTruthy THEN vs[Len(vs)] ELSE NoVal,
              price |-> IF price # 0 THEN RoundVal([present |-> TRUE, num |-> price, den |-> 1], 2) ELSE NoVal,
              distance |-> dist] :
               vs \in SeqChoices([j \in 1..Len(s) |-> RoundValSet(s[j], 2)]),
               dist \in IF maTruthy /\ price # 0
                        THEN RoundValSet([present |-> TRUE, num |-> (price * ma.den - ma.num) * 100, den |-> ma.num], 2)
                        ELSE {NoVal}}

\* get_ma_distance(ohlcv_list, ma_period): (current_price, ma_value, distance_percent)
GetMaDistance(c, key) ==
    LET p == MaPeriodOf(key) IN
    IF p = 0 THEN {NoMaResult}
    ELSE IF Len(c) = 0 \/ Len(c) < p THEN {NoMaResult}
    ELSE {[r EXCEPT !.values = <<>>] : r \in CalculateMaResult(c, p)}

MaInputs ==
    [closes : UNION {[1..m -> MaCloseValues] : m \in 0..MaxMaCloses}, period : MaPeriods, key : {"p20W", "p10W"}]
    \cup {[closes |-> <<10, 20, 30, 40, 50>>, period |-> 3, key |-> "p50W"],
           [closes |-> <<10, 11, 11>>, period |-> 3, key |-> "p20W"]}   \* distance exactly 25/8

MaCalcInit ==
    /\ fnIn \in MaInputs
    /\ fnOut = [sma |-> <<>>, ema |-> <<>>, result |-> NoMaResult, dist |-> NoMaResult]
    /\ fnPc = "init"

MaCalcApply ==
    /\ fnPc = "init"
    /\ \E r \in CalculateMaResult(fnIn.closes, fnIn.period), g \in GetMaDistance(fnIn.closes, fnIn.key) :
          fnOut' = [sma |-> MovingAverage(fnIn.closes, fnIn.period, "sma"),
                    ema |-> MovingAverage(fnIn.closes, fnIn.period, "ema"),
                    result |-> r,
                    dist |-> g]
    /\ fnPc' = "done"
    /\ UNCHANGED fnIn

MaCalcSpecInit == DedupIdle /\ PoolIdle /\ ScrIdle /\ KeyIdle /\ CacheIdle /\ SweepIdle /\ MdIdle /\ CsIdle /\ MaCalcInit

MaCalcStep == MaCalcApply /\ UNCHANGED <<dedupVars, poolVars, scrVars, keyVars, cacheVars, sweepVars, mdVars, csVars>>

SpecMaCalc == MaCalcSpecInit /\ [][MaCalcStep]_vars

(***************************************************************************)
(* IndicatorCalculator.macd / calculate_macd_result (core/indicators.py)   *)
(* in exact rational arithmetic ([n, d], d > 0, normalised); the reported *)
(* series are rounded to 4 decimals.                                       *)
(***************************************************************************)
MaxMacdCloses == 6      \* bars of the input

RatAdd(x, y) ==
    LET l == (x.d \div Gcd(x.d, y.d)) * y.d
    IN Norm(x.n * (l \div x.d) + y.n * (l \div y.d), l)

RatNeg(x) == [n |-> -x.n, d |-> x.d]

RatScale(x, a, b) == Norm(x.n * a, x.d * b)

\* ewm(span=p, adjust=False).mean() of a rational series, at j
RECURSIVE EmaR(_, _, _)
EmaR(xs, p, j) ==
    IF j = 1 THEN xs[1]
    ELSE RatAdd(RatScale(EmaR(xs, p, j - 1), p - 1, p + 1), RatScale(xs[j], 2, p + 1))

EmaSeqR(xs, p) == [j \in 1..Len(xs) |-> EmaR(xs, p, j)]

\* histogram as signal_line - macd_line
MacdHistogramSwapped(m, s) == [j \in 1..Len(m) |-> RatAdd(s[j], RatNeg(m[j]))]

\* histogram = macd_line - signal_line
MacdHistogram(m, s) == [j \in 1..Len(m) |-> RatAdd(m[j], RatNeg(s[j]))]

\* IndicatorCalculator.macd(prices, fast, slow, signal)
MacdLines(c) ==
    LET xs == [j \in 1..Len(c) |-> [n |-> c[j], d |-> 1]]
        fast == EmaSeqR(xs, MacdFastPeriod)
        slow == EmaSeqR(xs, MacdSlowPeriod)
        m == [j \in 1..Len(c) |-> RatAdd(fast[j], RatNeg(slow[j]))]
        s == EmaSeqR(m, MacdSignalPeriod)
    IN [macd |-> m, signal |-> s, histogram |-> MacdHistogram(m, s)]

NoMacdResult == [macd |-> <<>>, signal |-> <<>>, histogram |-> <<>>, current |-> FALSE]

\* calculate_macd_result(df), the set of results the floats can give: empty
\* series and current_* None below min_periods = slow_period +
\* signal_period; current is TRUE when the current_* values are set (the
\* ewm series have no NaN; each rounds the same float as the last value).
CalculateMacdResult(c) ==
    IF Len(c) = 0 \/ Len(c) < MacdSlowPeriod + MacdSignalPeriod THEN {NoMacdResult}
    ELSE LET l == MacdLines(c)
             r4(x) == SeqChoices([j \in 1..Len(x) |-> PyRoundSet(x[j].n, x[j].d, 4)])
         IN {[macd |-> a, signal |-> b, histogram |-> h, current |-> TRUE] :
               a \in r4(l.macd), b \in r4(l.signal), h \in r4(l.histogram)}

\* macd[6] exactly 31/32, histogram[6] exactly 5/32 (ties at 4 decimals)
MacdTieInputs == {<<1, 4, 0, 1, 1, 7>>, <<0, 3, 1, 0, 4, 6>>}

MacdCalcInit ==
    /\ fnIn \in UNION {[1..m -> CloseValues] : m \in 0..MaxMacdCloses} \cup MacdTieInputs
    /\ fnOut = NoMacdResult
    /\ fnPc = "init"

MacdCalcApply ==
    /\ fnPc = "init"
    /\ fnOut' \in CalculateMacdResult(fnIn)
    /\ fnPc' = "done"
    /\ UNCHANGED fnIn

MacdCalcSpecInit == DedupIdle /\ PoolIdle /\ ScrIdle /\ KeyIdle /\ CacheIdle /\ SweepIdle /\ MdIdle /\ CsIdle /\ MacdCalcInit

MacdCalcStep == MacdCalcApply /\ UNCHANGED <<dedupVars, poolVars, scrVars, keyVars, cacheVars, sweepVars, mdVars, csVars>>

SpecMacdCalc == MacdCalcSpecInit /\ [][MacdCalcStep]_vars

(***************************************************************************)
(* IndicatorCalculator.calculate_all_indicators (core/indicators.py): one  *)
(* dataframe, each requested indicator computed on it; a result that was   *)
(* not requested keeps IndicatorData's default None (<<>> here, <<r>> for  *)
(* a result r).                                                            *)
(***************************************************************************)
\* MA_PERIOD_MAP with the 50W and 100W windows exchanged
MA_PERIOD_MAP_Exchanged == ("20W" :> 100) @@ ("50W" :> 500) @@ ("100W" :> 250) @@ ("200W" :> 1000)
\* MA_PERIOD_MAP, in daily bars
MA_PERIOD_MAP == ("20W" :> 100) @@ ("50W" :> 250) @@ ("100W" :> 500) @@ ("200W" :> 1000)
\* the bar counts the model runs in place of 100, 250, 500 and 1000 daily bars
ScaledBars == (100 :> 2) @@ (250 :> 3) @@ (500 :> 4) @@ (1000 :> 5)
RsiDefaultPeriod == 2   \* calculate_rsi_result(df) period, scaled from 14
MaxAllCloses == 5       \* bars of the input

\* The same with the RSI gated by include_macd.
CalculateAllIndicatorsMisflag(c, im, ir, imacd) ==
    LET opt(b, S) == IF b THEN {<<x>> : x \in S} ELSE {<<>>}
        maw(w) == opt(im, CalculateMaResult(c, ScaledBars[MA_PERIOD_MAP[w]]))
    IN {[ma |-> [ma_20w |-> m1, ma_50w |-> m2, ma_100w |-> m3, ma_200w |-> m4], rsi |-> r, macd |-> x] :
          m1 \in maw("20W"), m2 \in maw("50W"), m3 \in maw("100W"), m4 \in maw("200W"),
          r \in opt(imacd, CalculateRsiResult(c, RsiDefaultPeriod)),
          x \in opt(imacd, CalculateMacdResult(c))}

\* the set of results the floats can give
CalculateAllIndicators(c, im, ir, imacd) ==
    LET opt(b, S) == IF b THEN {<<x>> : x \in S} ELSE {<<>>}
        maw(w) == opt(im, CalculateMaResult(c, ScaledBars[MA_PERIOD_MAP[w]]))
    IN {[ma |-> [ma_20w |-> m1, ma_50w |-> m2, ma_100w |-> m3, ma_200w |-> m4], rsi |-> r, macd |-> x] :
          m1 \in maw("20W"), m2 \in maw("50W"), m3 \in maw("100W"), m4 \in maw("200W"),
          r \in opt(ir, CalculateRsiResult(c, RsiDefaultPeriod)),
          x \in opt(imacd, CalculateMacdResult(c))}

AllCalcInit ==
    /\ fnIn \in [closes : UNION {[1..m -> {1, 2}] : m \in 0..MaxAllCloses},
                 ma : BOOLEAN, rsi : BOOLEAN, macd : BOOLEAN]
    /\ fnOut \in CalculateAllIndicators(<<>>, FALSE, FALSE, FALSE)
    /\ fnPc = "init"

AllCalcApply ==
    /\ fnPc = "init"
    /\ fnOut' \in CalculateAllIndicators(fnIn.closes, fnIn.ma, fnIn.rsi, fnIn.macd)
    /\ fnPc' = "done"
    /\ UNCHANGED fnIn

AllCalcSpecInit == DedupIdle /\ PoolIdle /\ ScrIdle /\ KeyIdle /\ CacheIdle /\ SweepIdle /\ MdIdle /\ CsIdle /\ AllCalcInit

AllCalcStep == AllCalcApply /\ UNCHANGED <<dedupVars, poolVars, scrVars, keyVars, cacheVars, sweepVars, mdVars, csVars>>

SpecAllIndicators == AllCalcSpecInit /\ [][AllCalcStep]_vars

(***************************************************************************)
(* SignalDetector.detect_all_signals (core/signals.py): the MA crossover   *)
(* of each window, the RSI, the MACD and the 52-week detectors, each fired *)
(* signal emitted with the symbol, the last close and a detail payload.    *)
(* The RSI and MACD detectors run on the closes: rsi(period 2) and macd    *)
(* (fast 2, slow 3, signal 2), their minimum bar counts 15 and 35 scaled   *)
(* to period + 1 and slow + signal.  A comparison of two floats whose      *)
(* exact values are equal may go either way, except on a constant series   *)
(* (pandas' ewm keeps the value exactly, so the MACD and signal are 0).    *)
(***************************************************************************)
MaxSignalCloses == 5     \* bars of the input
SignalCloseValues == {0, 1, 2}
SignalMaWindows == <<"20W", "50W", "100W", "200W">>
\* MA_PERIOD_MAP, scaled
SignalMaPeriodMap == [w \in DOMAIN MA_PERIOD_MAP |-> ScaledBars[MA_PERIOD_MAP[w]]]
SignalHighs == {3, Absent}
SignalLows == {1, Absent}
Signal52wThreshold == 5
RsiSignalMinBars == RsiDefaultPeriod + 1   \* len(ohlcv_list) < 15, scaled

\* the sign of the float comparison of x with y (exact rationals [n, d]):
\* -1, 0 or 1; any of them when x = y and the floats are not exact
FloatCmp(x, y, exact) ==
    LET dlt == RatAdd(x, RatNeg(y))
    IN IF dlt.n = 0 THEN (IF exact THEN {0} ELSE {-1, 0, 1})
       ELSE IF dlt.n > 0 THEN {1} ELSE {-1}

RsiRat(v) == Norm(v.num, v.den)
IntRat(k) == [n |-> k, d |-> 1]

\* the closes c[1..j] are all equal
ConstantUpTo(c, j) == \A i \in 1..j : c[i] = c[1]

\* detect_rsi_signal(ohlcv_list) with rsi(df["close"]).iloc[-1] rounded to 2
\* decimals for the payload: the set of [sig, value] the floats can give.
\* 0, 50 and 100 are exact; no other value equals a bound of 30 or 70
\* unless it is that bound exactly.
RsiSignalChoices(c) ==
    LET n == Len(c) IN
    IF n < RsiSignalMinBars THEN {[sig |-> "none", value |-> NoRsi]}
    ELSE LET s == RsiSeriesOf(c, RsiDefaultPeriod)
             cur == s[n]
             prevAbsent == ~s[n - 1].present
             prev == IF prevAbsent THEN cur ELSE s[n - 1]
         IN UNION {
              {[sig |-> IF p30 >= 0 /\ c30 < 0 THEN "RSI_OVERSOLD"
                        ELSE IF p70 <= 0 /\ c70 > 0 THEN "RSI_OVERBOUGHT"
                        ELSE "none",
                value |-> v] :
                 p30 \in IF prevAbsent THEN {c30} ELSE FloatCmp(RsiRat(prev), IntRat(OversoldThreshold), FALSE),
                 p70 \in IF prevAbsent THEN {c70} ELSE FloatCmp(RsiRat(prev), IntRat(OverboughtThreshold), FALSE),
                 v \in RoundValSet(cur, 2)} :
               c30 \in FloatCmp(RsiRat(cur), IntRat(OversoldThreshold), FALSE),
               c70 \in FloatCmp(RsiRat(cur), IntRat(OverboughtThreshold), FALSE)}

\* detect_macd_signal(ohlcv_list) with macd_line.iloc[-1] and
\* signal_line.iloc[-1] rounded to 4 decimals for the payload.
MacdSignalChoices(c) ==
    LET n == Len(c) IN
    IF n < MacdMin THEN {[sig |-> "none", macd |-> IntRat(0), signal |-> IntRat(0)]}
    ELSE LET l == MacdLines(c)
             pm == l.macd[n - 1]  ps == l.signal[n - 1]
             cm == l.macd[n]      cs == l.signal[n]
         IN {[sig |-> IF prv < 0 /\ now > 0 THEN "MACD_BULLISH_CROSS"
                      ELSE IF prv > 0 /\ now < 0 THEN "MACD_BEARISH_CROSS"
                      ELSE "none",
              macd |-> rm, signal |-> rs] :
               prv \in FloatCmp(pm, ps, ConstantUpTo(c, n - 1)),
               now \in FloatCmp(cm, cs, ConstantUpTo(c, n)),
               rm \in PyRoundSet(cm.n, cm.d, 4),
               rs \in PyRoundSet(cs.n, cs.d, 4)}

\* detect_ma_crossover(ohlcv_list, ma_period) with the default lookback 2
DetectMaCrossoverFor(c, w) ==
    LET period == SignalMaPeriodMap[w]
        n == Len(c)
        lookback == 2
    IN IF n < period + lookback THEN "none"
       ELSE IF ~MaPresent(period, n) \/ ~MaPresent(period, n - 1) THEN "none"
       ELSE MaScan(c, period, n - lookback + 1, n)

SignalCreate(sym, type, price, details) ==
    [symbol |-> sym, signal_type |-> type, price |-> price, details |-> details]

RECURSIVE MaEmissions(_, _, _, _)
MaEmissions(sym, c, price, i) ==
    IF i > Len(SignalMaWindows) THEN <<>>
    ELSE LET s == DetectMaCrossoverFor(c, SignalMaWindows[i])
         IN (IF s # "none"
             THEN <<SignalCreate(sym, s, price, [ma_period |-> SignalMaWindows[i]])>>
             ELSE <<>>)
            \o MaEmissions(sym, c, price, i + 1)

\* the signals appended for the RSI outcome r, the MACD outcome m and the
\* 52-week list ws
RsiEmission(sym, r, price) ==
    IF r.sig # "none"
    THEN <<SignalCreate(sym, r.sig, price,
             [rsi_value |-> r.value, threshold |-> IF r.sig = "RSI_OVERSOLD" THEN 30 ELSE 70])>>
    ELSE <<>>

MacdEmission(sym, m, price) ==
    IF m.sig # "none"
    THEN <<SignalCreate(sym, m.sig, price, [macd |-> m.macd, signal |-> m.signal])>>
    ELSE <<>>

Week52Emissions(sym, ws, price, high, low) ==
    [i \in 1..Len(ws) |->
        SignalCreate(sym, ws[i], price, [high_52w |-> high, low_52w |-> low, current |-> price])]

\* the set of lists detect_all_signals can return
DetectAllSignals(sym, c, high, low) ==
    LET price == IF Len(c) > 0 THEN c[Len(c)] ELSE 0   \* None for no bars
    IN IF Len(c) = 0 \/ price = 0 THEN {<<>>}          \* if not current_price
       ELSE {MaEmissions(sym, c, price, 1) \o RsiEmission(sym, r, price) \o MacdEmission(sym, m, price)
             \o Week52Emissions(sym, ws, price, high, low) :
               r \in RsiSignalChoices(c), m \in MacdSignalChoices(c),
               ws \in Detect52wSignals(price, high, low, Signal52wThreshold)}

AllSignalsInit ==
    /\ fnIn \in [closes : UNION {[1..m -> SignalCloseValues] : m \in 0..MaxSignalCloses},
                 high : SignalHighs, low : SignalLows]
    /\ fnOut = <<>>
    /\ fnPc = "init"

AllSignalsApply ==
    /\ fnPc = "init"
    /\ fnOut' \in DetectAllSignals("AAPL", fnIn.closes, fnIn.high, fnIn.low)
    /\ fnPc' = "done"
    /\ UNCHANGED fnIn

AllSignalsSpecInit == DedupIdle /\ PoolIdle /\ ScrIdle /\ KeyIdle /\ CacheIdle /\ SweepIdle /\ MdIdle /\ CsIdle /\ AllSignalsInit

AllSignalsStep == AllSignalsApply /\ UNCHANGED <<dedupVars, poolVars, scrVars, keyVars, cacheVars, sweepVars, mdVars, csVars>>

SpecAllSignals == AllSignalsSpecInit /\ [][AllSignalsStep]_vars

(***************************************************************************)
(* CacheTTL (cache/ttl.py) over is_market_hours (utils/market_hours.py).   *)
(* An Eastern time of day is 2 * minute + frac, frac = 1 for an instant    *)
(* strictly inside the minute (seconds or microseconds > 0).               *)
(***************************************************************************)
MarketOpen == 2 * (9 * 60 + 30)   \* time(9, 30)
MarketClose == 2 * (16 * 60)      \* time(16, 0)
TradingDays == {0, 1, 2, 3, 4}    \* Monday = 0 .. Friday = 4
\* Settings defaults
CacheTtlQuote == 300
CacheTtlOhlcvDaily == 3600
CacheTtlOhlcvWeekly == 86400
CacheTtlIndicators == 300
CacheTtlScreener == 300
CacheTtlUniverse == 86400
CacheTtlOffHoursMultiplier == 12
TtlMinutes == {0, 569, 570, 571, 720, 959, 960, 961, 1439}   \* minutes around the edges

IsTradingDay(wd) == wd \in TradingDays

\* the same with the closing time excluded
IsMarketHoursExclusive(wd, t) == IsTradingDay(wd) /\ MarketOpen <= t /\ t < MarketClose

IsMarketHours(wd, t) == IsTradingDay(wd) /\ MarketOpen <= t /\ t <= MarketClose

GetMultiplier(wd, t) == IF IsMarketHours(wd, t) THEN 1 ELSE CacheTtlOffHoursMultiplier

CacheTtls(wd, t) ==
    [quote |-> CacheTtlQuote * GetMultiplier(wd, t),
     ohlcv_daily |-> CacheTtlOhlcvDaily,
     ohlcv_weekly |-> CacheTtlOhlcvWeekly,
     indicators |-> CacheTtlIndicators * GetMultiplier(wd, t),
     screener |-> CacheTtlScreener * GetMultiplier(wd, t),
     universe |-> CacheTtlUniverse]

TtlInit ==
    /\ fnIn \in [weekday : 0..6, minute : TtlMinutes, frac : {0, 1}]
    /\ fnOut = CacheTtls(0, 0)
    /\ fnPc = "init"

TtlApply ==
    /\ fnPc = "init"
    /\ fnOut' = CacheTtls(fnIn.weekday, 2 * fnIn.minute + fnIn.frac)
    /\ fnPc' = "done"
    /\ UNCHANGED fnIn

TtlSpecInit == DedupIdle /\ PoolIdle /\ ScrIdle /\ KeyIdle /\ CacheIdle /\ SweepIdle /\ MdIdle /\ CsIdle /\ TtlInit

TtlStep == TtlApply /\ UNCHANGED <<dedupVars, poolVars, scrVars, keyVars, cacheVars, sweepVars, mdVars, csVars>>

SpecCacheTtl == TtlSpecInit /\ [][TtlStep]_vars

(***************************************************************************)
(* ScreenerService._process_stock (core/screener.py), one task per symbol, *)
(* the tasks interleaving at their awaits.  fnIn[s]: what the market data  *)
(* service returns for s; fnPc[s]: the await the task is at; fnOut[s]: the *)
(* calls it made (log), its distance and its result.                       *)
(***************************************************************************)
PsSymbols == {"AAA", "BBB"}
PsMaKey == "p20W"                 \* ma_filter.value
\* bars from get_ohlcv_for_indicators: empty, too short, MA 0.0, above, at,
\* below, 0.4975% above, reported as round(., 2) = 0.5 (above), and
\* exactly 58.125% above (a tie)
PsBars == {<<>>, <<1>>, <<0, 0>>, <<1, 3>>, <<2, 2>>, <<3, 1>>, <<100, 101>>, <<67, 253>>}
PsQuotes == {"quote", "none", "raise"}   \* get_quote returns a Quote, None or raises
PsNoRow == [present |-> FALSE, symbol |-> "none", position |-> "none"]

PsInputs ==
    {r \in [bars : PsBars, barsRaise : BOOLEAN, quote : PsQuotes] : r.barsRaise => r.bars = <<>>}

\* abs(distance_pct) < 0.5, distance_pct > 0, for a distance num / den
PsPosition(d) ==
    IF 2 * Abs(d.num) < Abs(d.den) THEN "at"
    ELSE IF (d.num > 0) = (d.den > 0) THEN "above"
    ELSE "below"

PsInit ==
    /\ fnIn \in [PsSymbols -> PsInputs]
    /\ fnPc = [s \in PsSymbols |-> "start"]
    /\ fnOut = [s \in PsSymbols |-> [log |-> <<>>, dist |-> NoMaResult, result |-> PsNoRow]]

\* ohlcv = await market_data_service.get_ohlcv_for_indicators(symbol, ...)
PsCallBars(s) ==
    /\ fnPc[s] = "start"
    /\ fnPc' = [fnPc EXCEPT ![s] = "await_bars"]
    /\ fnOut' = [fnOut EXCEPT ![s].log = Append(@, "get_ohlcv")]
    /\ UNCHANGED fnIn

\* The same with the quote requested whatever get_ma_distance returned.
PsBarsReturnNoCheck(s) ==
    /\ fnPc[s] = "await_bars"
    /\ IF fnIn[s].barsRaise \/ fnIn[s].bars = <<>>
       THEN /\ fnPc' = [fnPc EXCEPT ![s] = "done"]
            /\ UNCHANGED fnOut
       ELSE \E d \in GetMaDistance(fnIn[s].bars, PsMaKey) :
               /\ fnPc' = [fnPc EXCEPT ![s] = "await_quote"]
               /\ fnOut' = [fnOut EXCEPT ![s].log = Append(@, "get_quote"), ![s].dist = d]
    /\ UNCHANGED fnIn

\* the fetch returns (an exception is caught: None); if not ohlcv: None;
\* get_ma_distance; None if a value is None; else await get_quote(symbol)
PsBarsReturn(s) ==
    /\ fnPc[s] = "await_bars"
    /\ IF fnIn[s].barsRaise \/ fnIn[s].bars = <<>>
       THEN /\ fnPc' = [fnPc EXCEPT ![s] = "done"]
            /\ UNCHANGED fnOut
       ELSE \E d \in GetMaDistance(fnIn[s].bars, PsMaKey) :
               IF ~d.price.present \/ ~d.current.present \/ ~d.distance.present
               THEN /\ fnPc' = [fnPc EXCEPT ![s] = "done"]
                    /\ fnOut' = [fnOut EXCEPT ![s].dist = d]
               ELSE /\ fnPc' = [fnPc EXCEPT ![s] = "await_quote"]
                    /\ fnOut' = [fnOut EXCEPT ![s].log = Append(@, "get_quote"), ![s].dist = d]
    /\ UNCHANGED fnIn

\* the quote returns: None or an exception give None; else classify
PsQuoteReturn(s) ==
    /\ fnPc[s] = "await_quote"
    /\ fnPc' = [fnPc EXCEPT ![s] = "done"]
    /\ fnOut' = IF fnIn[s].quote = "quote"
                THEN [fnOut EXCEPT ![s].result =
                        [present |-> TRUE, symbol |-> s,
                         position |-> PsPosition(fnOut[s].dist.distance)]]
                ELSE fnOut
    /\ UNCHANGED fnIn

PsNext == \E s \in PsSymbols : PsCallBars(s) \/ PsBarsReturn(s) \/ PsQuoteReturn(s)

PsSpecInit == DedupIdle /\ PoolIdle /\ ScrIdle /\ KeyIdle /\ CacheIdle /\ SweepIdle /\ MdIdle /\ CsIdle /\ PsInit

PsStep == PsNext /\ UNCHANGED <<dedupVars, poolVars, scrVars, keyVars, cacheVars, sweepVars, mdVars, csVars>>

SpecProcessStock == PsSpecInit /\ [][PsStep]_vars


(***************************************************************************)
(* UniverseManager.get_universe against remove_stock (core/universe.py),   *)
(* callers interleaving at their awaits.  fnIn: the shared state, db (the  *)
(* is_active flag of each stock_universe row) and cache (the universe key  *)
(* of the cache service; within its 24 h TTL, Redis up); fnPc: the step of *)
(* each caller; fnOut: what each caller read and returned.                 *)
(***************************************************************************)
UvSymbols == {"AAA", "BBB", "CCC"}
UvRemoved == "AAA"                 \* remove_stock(db, "AAA")
UvDefaultOrder == <<"AAA", "BBB">>  \* the symbols of DEFAULT_UNIVERSE, in order
UvDefaults == {UvDefaultOrder[k] : k \in 1..Len(UvDefaultOrder)}
UvSelectPc == <<"start", "select_BBB">>  \* initialize_universe before its k-th select
UvAdds == {"AAA", "CCC"}           \* add_stock(db, symbol, ...) arguments
UvGetters == {"g1", "g2"}          \* get_universe callers
UvWriters == {"rm", "add", "init", "upd"}
UvNoCache == [present |-> FALSE, val |-> {}]

\* The stock_universe table: per symbol "none" (no row), "active" or "inactive".
Active(db) == {s \in UvSymbols : db[s] = "active"}

UvInit ==
    /\ \E cached \in {UvNoCache, [present |-> TRUE, val |-> {"AAA", "BBB"}]},
          bbb \in {"active", "none"} :
          fnIn = [db |-> ("AAA" :> "active") @@ ("BBB" :> bbb) @@ ("CCC" :> "none"),
                  cache |-> cached]
    /\ fnPc = [p \in UvGetters \cup UvWriters |-> "start"]
    /\ fnOut = [p \in UvGetters \cup UvWriters |->
                  [after |-> FALSE, read |-> {}, ret |-> {}]]

\* cached = await cache_service.get(CacheKeys.universe()); if cached: return
GetUniverseCacheGet(g) ==
    /\ fnPc[g] = "start"
    /\ IF fnIn.cache.present /\ fnIn.cache.val # {}
       THEN /\ fnPc' = [fnPc EXCEPT ![g] = "done"]
            /\ fnOut' = [fnOut EXCEPT ![g] = [after |-> fnPc["rm"] = "done",
                                              read |-> {}, ret |-> fnIn.cache.val]]
       ELSE /\ fnPc' = [fnPc EXCEPT ![g] = "query"]
            /\ fnOut' = [fnOut EXCEPT ![g].after = fnPc["rm"] = "done"]
    /\ UNCHANGED fnIn

\* await db.execute(select(StockUniverse).where(is_active == True))
GetUniverseQuery(g) ==
    /\ fnPc[g] = "query"
    /\ fnPc' = [fnPc EXCEPT ![g] = "set"]
    /\ fnOut' = [fnOut EXCEPT ![g].read = Active(fnIn.db)]
    /\ UNCHANGED fnIn

\* await cache_service.set(CacheKeys.universe(), universe, ...); return universe
GetUniverseCacheSet(g) ==
    /\ fnPc[g] = "set"
    /\ fnIn' = [fnIn EXCEPT !.cache = [present |-> TRUE, val |-> fnOut[g].read]]
    /\ fnPc' = [fnPc EXCEPT ![g] = "done"]
    /\ fnOut' = [fnOut EXCEPT ![g].ret = fnOut[g].read]

\* Invalidate cache: await cache_service.delete(CacheKeys.universe()); return.
UvCacheDelete(w) ==
    /\ fnPc[w] = "delete"
    /\ fnIn' = [fnIn EXCEPT !.cache = UvNoCache]
    /\ fnPc' = [fnPc EXCEPT ![w] = "done"]
    /\ UNCHANGED fnOut

\* remove_stock: await db.execute(select ... symbol == "AAA");
\* stock = scalar_one_or_none(); if not stock: return False.
RemoveStockSelect ==
    /\ fnPc["rm"] = "start"
    /\ fnPc' = [fnPc EXCEPT !["rm"] = IF fnIn.db[UvRemoved] = "none" THEN "done" ELSE "commit"]
    /\ UNCHANGED <<fnIn, fnOut>>

\* stock.is_active = False; await db.commit()
RemoveStockCommit ==
    /\ fnPc["rm"] = "commit"
    /\ fnIn' = [fnIn EXCEPT !.db[UvRemoved] = "inactive"]
    /\ fnPc' = [fnPc EXCEPT !["rm"] = "delete"]
    /\ UNCHANGED fnOut

\* add_stock: db.add(StockUniverse(symbol, is_active=True)); await db.commit()
\* (IntegrityError on the symbol primary key when a row exists: the
\* exception reaches the caller, the cache is left alone); await db.refresh.
AddStockCommit(sym) ==
    /\ fnPc["add"] = "start"
    /\ IF fnIn.db[sym] = "none"
       THEN /\ fnIn' = [fnIn EXCEPT !.db[sym] = "active"]
            /\ fnPc' = [fnPc EXCEPT !["add"] = "delete"]
       ELSE /\ fnPc' = [fnPc EXCEPT !["add"] = "done"]
            /\ UNCHANGED fnIn
    /\ UNCHANGED fnOut

\* initialize_universe, loop step k: await db.execute(select ... symbol ==
\* DEFAULT_UNIVERSE[k]); if no row, db.add(...) as active (read records it;
\* autoflush=False: nothing is written before the commit).
InitializeUniverseSelect(k) ==
    /\ fnPc["init"] = UvSelectPc[k]
    /\ fnOut' = [fnOut EXCEPT !["init"].read =
                    IF fnIn.db[UvDefaultOrder[k]] = "none" THEN @ \cup {UvDefaultOrder[k]} ELSE @]
    /\ fnPc' = [fnPc EXCEPT !["init"] = IF k = Len(UvDefaultOrder) THEN "commit" ELSE UvSelectPc[k + 1]]
    /\ UNCHANGED fnIn

\* await db.commit(): IntegrityError when another session inserted one of
\* those symbols meanwhile.
InitializeUniverseCommit ==
    /\ fnPc["init"] = "commit"
    /\ LET new == fnOut["init"].read IN
         IF \A s \in new : fnIn.db[s] = "none"
         THEN /\ fnIn' = [fnIn EXCEPT !.db = [s \in UvSymbols |-> IF s \in new THEN "active" ELSE fnIn.db[s]]]
              /\ fnPc' = [fnPc EXCEPT !["init"] = "delete"]
         ELSE /\ fnPc' = [fnPc EXCEPT !["init"] = "done"]
              /\ UNCHANGED fnIn
    /\ UNCHANGED fnOut

\* update_market_caps: selects, stock.market_cap = ...; await db.commit()
\* (is_active untouched).
UpdateMarketCapsCommit ==
    /\ fnPc["upd"] = "start"
    /\ fnPc' = [fnPc EXCEPT !["upd"] = "delete"]
    /\ UNCHANGED <<fnIn, fnOut>>

UvNext ==
    \/ \E g \in UvGetters :
          GetUniverseCacheGet(g) \/ GetUniverseQuery(g) \/ GetUniverseCacheSet(g)
    \/ RemoveStockSelect
    \/ RemoveStockCommit
    \/ \E sym \in UvAdds : AddStockCommit(sym)
    \/ \E k \in 1..Len(UvDefaultOrder) : InitializeUniverseSelect(k)
    \/ InitializeUniverseCommit
    \/ UpdateMarketCapsCommit
    \/ \E w \in UvWriters : UvCacheDelete(w)

UvSpecInit == DedupIdle /\ PoolIdle /\ ScrIdle /\ KeyIdle /\ CacheIdle /\ SweepIdle /\ MdIdle /\ CsIdle /\ UvInit

UvStep == UvNext /\ UNCHANGED <<dedupVars, poolVars, scrVars, keyVars, cacheVars, sweepVars, mdVars, csVars>>

SpecUniverseCache == UvSpecInit /\ [][UvStep]_vars

(***************************************************************************)
(* C1: every save_signal call for (symbol, type) is accepted (row added,   *)
(* stamped now) iff no stored row of the same (symbol, type) has           *)
(* timestamp >= now - 24h; otherwise it returns None and the store is      *)
(* unchanged.  Judged when the call returns, against the rows stored then. *)
(***************************************************************************)
C1_DedupAcceptance ==
    [][ \A i \in DedupSlots :
          (pending[i].pc # "idle" /\ pending'[i].pc = "idle") =>
            LET p == pending[i]
                recent == \E e \in store : /\ e.symbol = p.symbol
                                           /\ e.signal_type = p.signal_type
                                           /\ e.timestamp >= p.now - 24
            IN  /\ ~recent => /\ lastCall'.result = "accepted"
                              /\ store' = store \cup {[id |-> p.id, symbol |-> p.symbol,
                                                        signal_type |-> p.signal_type, timestamp |-> p.stamp]}
                /\ recent => /\ lastCall'.result = "duplicate"
                             /\ store' = store ]_vars

(***************************************************************************)
(* C2: at most 10 per-symbol evaluations are in flight in any state of a   *)
(* screen() run, whatever the universe size, and gather returns only once  *)
(* every per-symbol task has finished.                                     *)
(***************************************************************************)
C2_ConcurrencyCeiling ==
    /\ poolRunning <= 10
    /\ poolPc = "returned" => (poolDone + poolFailed = poolN /\ poolRunning = 0
                                /\ poolWaiting = 0 /\ poolEscapes = 0)

\* The ceiling is saturated with more tasks waiting, (some tasks still to run).
C2_Witness ==
    /\ poolRunning = ScreenConcurrency
    /\ poolWaiting > 0
    /\ poolFailed > 0

(***************************************************************************)
(* C3: a symbol whose bar fetch is empty or times out, whose MA distance   *)
(* is absent, whose quote is absent or times out, or whose evaluation      *)
(* raises, contributes no row; screen() still completes and returns the    *)
(* rows of every other symbol.                                             *)
(***************************************************************************)
C3_FailureIsolation ==
    /\ [](scrPc = "done" =>
            {scrResp.rows[k].sym : k \in 1..Len(scrResp.rows)}
              = {i \in 1..ScrSize : scrUniverse[i].outcome = "ok"})
    /\ <>(scrPc = "done")

\* A run finished with failing symbols of different kinds next to a good one.
C3_Witness ==
    /\ scrPc = "done"
    /\ Len(scrResp.rows) > 0
    /\ \E i, j \in 1..ScrSize :
          /\ scrUniverse[i].outcome = "escapes"
          /\ scrUniverse[j].outcome \in {"noQuote", "timeoutBars", "raises"}

(***************************************************************************)
(* C4: with include_below = false no returned row is "below"; with         *)
(* include_above = false no returned row is "above" or "at".               *)
(***************************************************************************)
C4_NoExcludedPositions ==
    scrPc = "done" =>
        \A k \in 1..Len(scrResp.rows) :
            /\ ~scrReq.include_below => scrResp.rows[k].position # "below"
            /\ ~scrReq.include_above => scrResp.rows[k].position \notin {"above", "at"}

\* Rows were dropped by both flags and rows were still returned.
C4_Witness ==
    /\ scrPc = "done"
    /\ ~scrReq.include_above
    /\ Len(scrResp.rows) > 0
    /\ \E k \in 1..Len(scrResp.valid) : /\ scrResp.valid[k].position = "at"
                                        /\ Abs(scrResp.valid[k].dist) <= scrReq.distance_pct

(***************************************************************************)
(* C5: a row's position is "at" when |distance%| < 0.5, else "above" when  *)
(* distance% > 0, else "below"; a row is kept iff |distance%| <=           *)
(* distance_pct, below implies include_below, and above/at implies         *)
(* include_above.                                                          *)
(***************************************************************************)
C5_ClassifyAndFilter ==
    scrPc = "done" =>
        LET v == scrResp.valid
            pos(d) == IF (d < 50 /\ d > -50) THEN "at" ELSE IF d > 0 THEN "above" ELSE "below"
            kept(r) == /\ (IF r.dist < 0 THEN -r.dist ELSE r.dist) <= scrReq.distance_pct
                       /\ (r.position = "below" => scrReq.include_below)
                       /\ (r.position \in {"above", "at"} => scrReq.include_above)
        IN /\ \A k \in 1..Len(v) : v[k].position = pos(v[k].dist)
           /\ scrResp.filtered = SelectSeq(v, kept)

\* A row on the 0.5% edge and a row beyond the threshold were classified and filtered.
C5_Witness ==
    /\ scrPc = "done"
    /\ \E k \in 1..Len(scrResp.valid) : Abs(scrResp.valid[k].dist) = 50
    /\ \E k \in 1..Len(scrResp.valid) : Abs(scrResp.valid[k].dist) = 49
    /\ Len(scrResp.filtered) > 0

(***************************************************************************)
(* C6: the page is sorted[offset : offset + limit] and total is the number *)
(* of filtered and sorted rows; so total >= len(page), len(page) <= limit  *)
(* and the page is empty when offset >= total.                             *)
(***************************************************************************)
C6_Pagination ==
    scrPc = "done" =>
        LET s == scrResp.sorted
            n == IF scrReq.limit < Len(s) - scrReq.offset
                 THEN scrReq.limit ELSE Max(0, Len(s) - scrReq.offset)
        IN /\ scrResp.total = Len(s)
           /\ Len(scrResp.rows) = n
           /\ \A k \in 1..n : scrResp.rows[k] = s[scrReq.offset + k]
           /\ scrResp.total >= Len(scrResp.rows)
           /\ Len(scrResp.rows) <= scrReq.limit
           /\ scrReq.offset >= scrResp.total => scrResp.rows = <<>>

\* A page from the middle of the sorted rows.
C6_Witness ==
    /\ scrPc = "done"
    /\ scrReq.offset > 0
    /\ Len(scrResp.rows) = scrReq.limit
    /\ scrResp.total > scrReq.offset + scrReq.limit

(***************************************************************************)
(* C7: the filtered rows come out ordered by the chosen key (symbol, name, *)
(* price, |distance%|, market cap with absent as 0, change%), ascending or *)
(* descending, and rows with equal keys keep their universe order.         *)
(***************************************************************************)
C7_StableSort ==
    scrPc = "done" =>
        LET s == scrResp.sorted
            f == scrResp.filtered
            key(r) == CASE scrReq.sort_by = "symbol" -> r.sym
                        [] scrReq.sort_by = "name" -> r.name
                        [] scrReq.sort_by = "price" -> r.price
                        [] scrReq.sort_by = "distance" -> IF r.dist < 0 THEN -r.dist ELSE r.dist
                        [] scrReq.sort_by = "market_cap" -> IF r.hasMcap THEN r.mcap ELSE 0
                        [] scrReq.sort_by = "change" -> r.change
        IN /\ Len(s) = Len(f)
           /\ {s[k] : k \in 1..Len(s)} = {f[k] : k \in 1..Len(f)}
           /\ \A i, j \in 1..Len(s) :
                 i < j =>
                   /\ scrReq.sort_order = "asc" => key(s[i]) <= key(s[j])
                   /\ scrReq.sort_order = "desc" => key(s[i]) >= key(s[j])
                   /\ key(s[i]) = key(s[j]) => s[i].sym < s[j].sym
           /\ scrResp.rows = s

\* A descending sort with a tie.
C7_Witness ==
    /\ scrPc = "done"
    /\ scrReq.sort_order = "desc"
    /\ scrReq.sort_by = "market_cap"
    /\ \E i, j \in 1..Len(scrResp.sorted) :
          /\ i < j
          /\ SortKey(scrReq.sort_by, scrResp.sorted[i]) = SortKey(scrReq.sort_by, scrResp.sorted[j])
          /\ scrResp.sorted[i].hasMcap # scrResp.sorted[j].hasMcap

(***************************************************************************)
(* C9 (as claimed): CacheKeys.screener is independent of field order, two  *)
(* requests with equal parameters get the same key, and requests that      *)
(* differ in a field get different keys.                                   *)
(***************************************************************************)
C9_KeyCanonicalClaimed ==
    kPc = "done" =>
        LET val(r) == [r EXCEPT !.distance_pct = IF r.distance_pct.neg
                                                 THEN -r.distance_pct.hund
                                                 ELSE r.distance_pct.hund]
        IN (key1 = key2) <=> (val(kReq1) = val(kReq2))

(***************************************************************************)
(* C9 (amended): the key does not depend on the field order of the dict;   *)
(* two requests get the same key iff every field has the same JSON text,  *)
(* so requests differing in a field get different keys, but distance_pct  *)
(* 0.0 and -0.0 (equal floats) get different keys.                         *)
(***************************************************************************)
C9_KeyCanonical ==
    kPc = "done" => ((key1 = key2) <=> (kReq1 = kReq2))

\* The same request (distance_pct -0.0) dumped in two field orders.
C9_Witness ==
    /\ kPc = "done"
    /\ kOrd1 # kOrd2
    /\ kReq1 = kReq2
    /\ kReq1.distance_pct.neg

(***************************************************************************)
(* C8: a screen() call whose key has an entry in an available cache        *)
(* returns cached = TRUE with the rows and total of the run that stored    *)
(* the entry and a cache timestamp, and reads no universe; without an      *)
(* entry, or with the cache unavailable, the pipeline is recomputed.       *)
(***************************************************************************)
C8_CacheHit ==
    [][ \A c \in CCallers :
          /\ cId'[c] # cId[c] =>
               LET hit == cacheUp /\ cache[cKey'[c]].present
               IN /\ hit => /\ cResp'[c].cached
                            /\ cResp'[c].rows = stored[cKey'[c]].rows
                            /\ cResp'[c].total = stored[cKey'[c]].total
                            /\ cResp'[c].hasTimestamp
                            /\ cPc'[c] = "idle"
                            /\ universeReads' = universeReads
                  /\ ~hit => cPc'[c] = "universe"
          /\ (cPc[c] = "gather" /\ cPc'[c] = "idle") => ~cResp'[c].cached ]_vars

\* A cached page was served although a fresh run would now give other rows.
C8_Witness ==
    \E c \in CCallers :
        /\ cResp[c].cached
        /\ cReq[c].limit = 1
        /\ cResp[c].total > 1
        /\ cResp[c].rows # CFresh(cReq[c], cMarket).rows

(***************************************************************************)
(* C10: at most 5 per-symbol detections run at once, no two symbol tasks   *)
(* hold the same storage session, and when the sweep's gather returns     *)
(* every symbol was processed, the failing ones included, and every        *)
(* symbol whose signals could be written had them written: each of its     *)
(* signals went through save_signal.                                       *)
(***************************************************************************)
C10_HoldsSession(i) == swTask[i] \in {"saving", "closing"}

C10_SweepIsolation ==
    /\ Cardinality({i \in 1..SweepSize : swTask[i] \in {"fetch", "saving", "closing"}}) <= 5
    /\ \A i, j \in 1..SweepSize :
          (i # j /\ C10_HoldsSession(i) /\ C10_HoldsSession(j)) => swSession[i] # swSession[j]
    /\ swPc = "done" =>
          \A i \in 1..SweepSize : /\ swTask[i] = "done"
                                  /\ (~swOutcome[i].fail /\ ~SaveRaises(swOutcome[i]))
                                        => swSaved[i] = Len(swOutcome[i].saves)

\* Five tasks in flight after a failed symbol, two writing at once, one of
\* them between the commits of its two signals.
C10_Witness ==
    /\ Cardinality({i \in 1..SweepSize : swTask[i] \in {"fetch", "saving", "closing"}}) = SweepConcurrency
    /\ \E i, j \in 1..SweepSize : /\ i # j /\ swTask[i] = "saving" /\ swTask[j] = "saving"
                                 /\ swSaved[i] = 1 /\ Len(swOutcome[i].saves) = 2
    /\ \E i \in 1..SweepSize : swOutcome[i].fail /\ swTask[i] = "done"

(***************************************************************************)
(* C11: after a sweep, the error counter equals the number of symbols      *)
(* whose processing failed, and those symbols add no detected or saved     *)
(* signals.                                                                *)
(***************************************************************************)
C11_Failed(i) == swOutcome[i].fail \/ SaveRaises(swOutcome[i])

\* Per symbol: nothing for a failed one, else its signals and its writes.
C11_Share ==
    [i \in 1..SweepSize |->
        IF C11_Failed(i) THEN NoReturn
        ELSE TaskReturn(FALSE, Len(swOutcome[i].saves),
                        Cardinality({k \in 1..Len(swOutcome[i].saves) : swOutcome[i].saves[k] = "saved"}))]

C11_FailureAccounting ==
    swPc = "done" =>
        /\ swTotals.errors = Cardinality({i \in 1..SweepSize : C11_Failed(i)})
        /\ swTotals.detected = SweepTotals(C11_Share).detected
        /\ swTotals.saved = SweepTotals(C11_Share).saved

(***************************************************************************)
(* C12: a market-data call returns within the 30 s timeout, after exactly  *)
(* one provider attempt, never raises, and yields None / [] whenever the   *)
(* fetch timed out, failed or found no data.                               *)
(***************************************************************************)
C12_BoundedSingleAttempt ==
    /\ mdPc = "returned" =>
          /\ mdElapsed <= 30
          /\ mdAttempts = 1
          /\ ~mdOut.raised
          /\ mdCause # "value" => mdOut.result = "empty"
    /\ mdAttempts <= 1

\* A call that timed out and whose thread finished afterwards.
C12_Witness ==
    /\ mdPc = "returned"
    /\ mdCause = "timeout"
    /\ mdThread # "running"

(***************************************************************************)
(* C13: CacheService degraded mode.  When the backend is disconnected or a *)
(* Redis call raises, get returns None, set/delete return False, no        *)
(* exception reaches the caller, and get_stock_indicators returns what it  *)
(* would return with an empty cache: the indicators of the current data.   *)
(***************************************************************************)
C13_DegradedMode ==
    [][csCalls' = csCalls + 1 =>
        /\ csOp'.op \in {"get", "set", "delete", "indicators"} => ~csOp'.raised
        /\ (csOp'.op = "get" /\ csOp'.degraded => csOp'.val = 0)
        /\ (csOp'.op \in {"set", "delete"} /\ csOp'.degraded => ~csOp'.ok)
        /\ (csOp'.op = "indicators" /\ csOp'.degraded =>
                \E c \in CsCallers :
                    /\ csPend[c].pc # "idle" /\ csPend'[c].pc = "idle"
                    /\ csOut' = IF csPend[c].pc = "fetch" THEN NotFound
                                ELSE IndicatorsOf(csPend[c].fetched))]_vars

\* A connected backend holding the symbol's entry raised on get, and the
\* indicators were recomputed while another request was in flight.
C13_Witness ==
    /\ csOp.op = "indicators" /\ csOp.degraded /\ csRedis = "conn"
    /\ csStore[csOp.key] # 0 /\ csStore[csOp.key] # csOut
    /\ \E c \in CsCallers : csPend[c].pc # "idle"

(***************************************************************************)
(* C14: _resample_to_weekly emits one bar per (ISO year, ISO week) of its  *)
(* input, in ascending key order; each bar's open is the first bar's open, *)
(* close and timestamp the last bar's, high the max, low the min and       *)
(* volume the sum over the week's bars (input order).  Ten consecutive     *)
(* daily bars from a Monday give exactly two weekly bars, the first one    *)
(* aggregating days 1-7.                                                   *)
(***************************************************************************)
C14_SetMax(S) == CHOOSE v \in S : \A w \in S : v >= w
C14_SetMin(S) == CHOOSE v \in S : \A w \in S : v <= w

RECURSIVE C14_SumOver(_, _)
C14_SumOver(bars, J) ==
    IF J = {} THEN 0
    ELSE LET j == CHOOSE j \in J : TRUE IN bars[j].volume + C14_SumOver(bars, J \ {j})

\* The bar the claim describes for the bars of input positions J.
C14_Agg(bars, J) ==
    [timestamp |-> bars[C14_SetMax(J)].timestamp,
     open |-> bars[C14_SetMin(J)].open,
     high |-> C14_SetMax({bars[j].high : j \in J}),
     low |-> C14_SetMin({bars[j].low : j \in J}),
     close |-> bars[C14_SetMax(J)].close,
     volume |-> C14_SumOver(bars, J)]

C14_TenFromMonday(bars) ==
    /\ Len(bars) = 10 /\ Weekday(bars[1].timestamp) = 0
    /\ \A j \in 2..10 : bars[j].timestamp = bars[j - 1].timestamp + 1

C14_WeeklyResample ==
    fnPc = "done" =>
        LET keys == {IsoKey(fnIn[j].timestamp) : j \in 1..Len(fnIn)}
        IN /\ Len(fnOut) = Cardinality(keys)
           /\ \A i \in 1..Len(fnOut) - 1 :
                  KeyLess(IsoKey(fnOut[i].timestamp), IsoKey(fnOut[i + 1].timestamp))
           /\ \A i \in 1..Len(fnOut) :
                  LET J == {j \in 1..Len(fnIn) : IsoKey(fnIn[j].timestamp) = IsoKey(fnOut[i].timestamp)}
                  IN J # {} /\ fnOut[i] = C14_Agg(fnIn, J)
           /\ C14_TenFromMonday(fnIn) =>
                  Len(fnOut) = 2 /\ fnOut[1] = C14_Agg(fnIn, 1..7)

\* Ten days from Mon 2025-12-29: the first ISO week spans two calendar years.
C14_Witness ==
    /\ fnPc = "done" /\ C14_TenFromMonday(fnIn)
    /\ YearOf(fnIn[1].timestamp) # YearOf(fnIn[7].timestamp)

(***************************************************************************)
(* C15 (as claimed): after _resample_indicator_payload every indicator     *)
(* series, including one left empty by insufficient history, has one entry *)
(* per weekly bar, the i-th carrying the i-th weekly bar's timestamp and   *)
(* the last source value of that ISO week, or None when the week has none. *)
(***************************************************************************)
C15_Aligned(src, out, weekly) ==
    /\ Len(out) = Len(weekly)
    /\ \A i \in 1..Len(weekly) :
           LET J == {j \in 1..Len(src) : IsoKey(src[j].ts) = IsoKey(weekly[i].timestamp)}
           IN /\ out[i].ts = weekly[i].timestamp
              /\ out[i].value = IF J = {} THEN None ELSE src[C14_SetMax(J)].value

C15_AlignmentClaimed ==
    fnPc = "done" =>
        \A n \in DOMAIN fnIn.indicators :
            \A f \in DOMAIN fnIn.indicators[n] \cap PayloadListFields :
                C15_Aligned(fnIn.indicators[n][f], fnOut.indicators[n][f], fnOut.weekly)

(***************************************************************************)
(* C15 (as the code does it): with at least one weekly bar, every series   *)
(* that was non-empty is aligned as above; a series that was empty stays   *)
(* empty; with no weekly bars the payload is returned unchanged.           *)
(***************************************************************************)
C15_IndicatorAlignment ==
    fnPc = "done" =>
        \A n \in DOMAIN fnIn.indicators :
            /\ DOMAIN fnOut.indicators[n] = DOMAIN fnIn.indicators[n]
            /\ \A f \in DOMAIN fnIn.indicators[n] :
                  LET src == fnIn.indicators[n][f]
                      out == fnOut.indicators[n][f]
                  IN IF f \notin PayloadListFields THEN out = src
                     ELSE IF fnOut.weekly # <<>> /\ src # <<>>
                     THEN C15_Aligned(src, out, fnOut.weekly)
                     ELSE out = src

\* Two weekly bars, one of whose weeks has no source item (None marker),
\* while ma_200w stays empty.
C15_Witness ==
    /\ fnPc = "done" /\ Len(fnOut.weekly) = 2
    /\ fnIn.indicators["ma_20w"].values # <<>>
    /\ \E i \in 1..2 : fnOut.indicators["ma_20w"].values[i].value = None
    /\ \E i \in 1..2 : fnOut.indicators["ma_20w"].values[i].value # None
    /\ fnOut.indicators["ma_200w"].values = <<>>
    /\ Len(fnOut.indicators["macd"].histogram) = 2

(***************************************************************************)
(* C16: in the chart path the bars and every indicator series are cut to   *)
(* the same trailing length: each non-empty series then has as many items  *)
(* as the sliced bars, with their timestamps position by position.        *)
(***************************************************************************)
C16_UniformSlice ==
    fnPc = "done" =>
        \A n \in DOMAIN fnOut.indicators : \A f \in DOMAIN fnOut.indicators[n] :
            LET s == fnOut.indicators[n][f]
            IN s # <<>> =>
                /\ Len(s) = Len(fnOut.bars)
                /\ \A j \in 1..Len(s) : s[j].ts = fnOut.bars[j].timestamp

\* The period window cuts a longer history, and the MA and MACD series,
\* long enough to be non-empty, were cut with it.
C16_Witness ==
    /\ fnPc = "done" /\ Len(fnIn.full) > fnIn.periodDays
    /\ fnOut.indicators.ma_200w.values # <<>>
    /\ fnOut.indicators.macd.histogram # <<>>
    /\ fnIn.full[1].timestamp # fnIn.full[Len(fnIn.full)].timestamp

(***************************************************************************)
(* C17: detect_ma_crossover gives no signal without period + lookback bars *)
(* (or with an MA value missing); otherwise it scans the pairs of the      *)
(* lookback window oldest first and reports bullish for the first pair     *)
(* whose close goes from at/below the MA to strictly above it, bearish for *)
(* the first pair going from at/above to strictly below, else none.        *)
(***************************************************************************)
C17_FirstCross(c, p, lookback) ==
    LET n == Len(c)
        bull(j) == CloseVsMa(c, p, j - 1) <= 0 /\ CloseVsMa(c, p, j) > 0
        bear(j) == CloseVsMa(c, p, j - 1) >= 0 /\ CloseVsMa(c, p, j) < 0
        Q == {j \in (n - lookback + 1)..n : bull(j) \/ bear(j)}
    IN IF Q = {} THEN "none"
       ELSE LET j == CHOOSE j \in Q : \A k \in Q : j <= k
            IN IF bull(j) THEN "MA_CROSSOVER_BULLISH" ELSE "MA_CROSSOVER_BEARISH"

C17_MaCrossover ==
    fnPc = "done" =>
        LET p == MaPeriodOf(fnIn.key)
            c == fnIn.closes
        IN fnOut = IF p = 0 \/ Len(c) < p + fnIn.lookback THEN "none"
                   ELSE C17_FirstCross(c, p, fnIn.lookback)

(***************************************************************************)
(* C18: with at least 15 bars and the current RSI present, oversold iff    *)
(* previous >= 30 and current < 30, overbought iff previous <= 70 and      *)
(* current > 70 (previous taken as current when absent), none otherwise;   *)
(* with fewer than 15 bars, none.                                          *)
(***************************************************************************)
C18_RsiThreshold ==
    fnPc = "done" =>
        LET p == IF fnIn.prev = Absent THEN fnIn.cur ELSE fnIn.prev
            c == fnIn.cur
        IN /\ fnIn.n < 15 => fnOut = "none"
           /\ fnIn.n >= 15 /\ c # Absent =>
                  /\ (fnOut = "RSI_OVERSOLD" <=> p >= 30 /\ c < 30)
                  /\ (fnOut = "RSI_OVERBOUGHT" <=> p <= 70 /\ c > 70)
                  /\ fnOut \in {"RSI_OVERSOLD", "RSI_OVERBOUGHT", "none"}

\* The previous RSI sat exactly on 30 and the current one is below it.
C18_Witness ==
    fnPc = "done" /\ fnIn.n >= 15 /\ fnIn.prev = 30 /\ fnIn.cur = 29 /\ fnOut = "RSI_OVERSOLD"

(***************************************************************************)
(* C19: with fewer than 35 bars detect_macd_signal gives none; otherwise   *)
(* bullish iff the MACD line goes from at/below the signal line at the     *)
(* previous bar to above it at the current bar, bearish on the mirror      *)
(* transition, none otherwise.                                             *)
(***************************************************************************)
C19_MacdCross ==
    fnPc = "done" /\ fnIn.cm # Absent /\ fnIn.cs # Absent =>
        /\ fnIn.n < 35 => fnOut = "none"
        /\ fnIn.n >= 35 =>
               /\ (fnOut = "MACD_BULLISH_CROSS" <=> fnIn.pm <= fnIn.ps /\ fnIn.cm > fnIn.cs)
               /\ (fnOut = "MACD_BEARISH_CROSS" <=> fnIn.pm >= fnIn.ps /\ fnIn.cm < fnIn.cs)

(***************************************************************************)
(* C20: for a supplied high, NEW_52W_HIGH fires iff price >= high and      *)
(* NEAR_52W_HIGH iff price < high and price is within threshold% below     *)
(* high, never both; the low side is the independent mirror.  E.g.         *)
(* (110, 100, 80, 5%) gives NEW_52W_HIGH only, (97, 100, 80, 5%)         *)
(* NEAR_52W_HIGH only, (90, 100, 80, 5%) no signal.                       *)
(***************************************************************************)
C20_Has(s, x) == \E i \in 1..Len(s) : s[i] = x

C20_Week52Claimed ==
    fnPc = "done" =>
        LET p == fnIn.price  h == fnIn.high  l == fnIn.low  t == fnIn.t
        IN /\ h # Absent =>
                  /\ C20_Has(fnOut, "NEW_52W_HIGH") <=> p >= h
                  /\ C20_Has(fnOut, "NEAR_52W_HIGH") <=> p < h /\ (h - p) * 100 <= t * h
           /\ l # Absent =>
                  /\ C20_Has(fnOut, "NEW_52W_LOW") <=> p <= l
                  /\ C20_Has(fnOut, "NEAR_52W_LOW") <=> p > l /\ (p - l) * 100 <= t * l

\* C20 (amended): the same for a positive high / low, except that exactly
\* at threshold% below the high (above the low) the float test decides
\* whether the near signal fires; a high or low of 0.0 is falsy and, like
\* None, fires nothing.
C20_Week52 ==
    fnPc = "done" =>
        LET p == fnIn.price  h == fnIn.high  l == fnIn.low  t == fnIn.t
        IN /\ Supplied(h) =>
                  /\ C20_Has(fnOut, "NEW_52W_HIGH") <=> p >= h
                  /\ h > 0 /\ p < h /\ (h - p) * 100 < t * h => C20_Has(fnOut, "NEAR_52W_HIGH")
                  /\ h > 0 /\ (p >= h \/ (h - p) * 100 > t * h) => ~C20_Has(fnOut, "NEAR_52W_HIGH")
           /\ Supplied(l) =>
                  /\ C20_Has(fnOut, "NEW_52W_LOW") <=> p <= l
                  /\ l > 0 /\ p > l /\ (p - l) * 100 < t * l => C20_Has(fnOut, "NEAR_52W_LOW")
                  /\ l > 0 /\ (p <= l \/ (p - l) * 100 > t * l) => ~C20_Has(fnOut, "NEAR_52W_LOW")
           /\ ~(C20_Has(fnOut, "NEW_52W_HIGH") /\ C20_Has(fnOut, "NEAR_52W_HIGH"))
           /\ ~(C20_Has(fnOut, "NEW_52W_LOW") /\ C20_Has(fnOut, "NEAR_52W_LOW"))
           /\ (h = 100 /\ l = 80 /\ p = 110 /\ t = 5) => fnOut = <<"NEW_52W_HIGH">>
           /\ (h = 100 /\ l = 80 /\ p = 97 /\ t = 5) => fnOut = <<"NEAR_52W_HIGH">>
           /\ (h = 100 /\ l = 80 /\ p = 90 /\ t = 5) => fnOut = <<>>
           /\ ~Supplied(h) => ~C20_Has(fnOut, "NEW_52W_HIGH") /\ ~C20_Has(fnOut, "NEAR_52W_HIGH")
           /\ ~Supplied(l) => ~C20_Has(fnOut, "NEW_52W_LOW") /\ ~C20_Has(fnOut, "NEAR_52W_LOW")

\* Price 93 exactly 7% below the high 100: the near-high test at its
\* boundary did not fire, while the low 80 gave no signal either.
C20_Witness ==
    /\ fnPc = "done" /\ fnIn.price = 93 /\ fnIn.high = 100 /\ fnIn.t = 7 /\ fnIn.low = 80
    /\ fnOut = <<>>

(***************************************************************************)
(* C21: every present RSI value is in [0, 100]; 100 where avg_loss = 0 and *)
(* avg_gain > 0; 50 where both are 0; the first period positions are       *)
(* absent; fewer than period + 1 bars give empty values, no current value  *)
(* and both flags false.                                                   *)
(***************************************************************************)
C21_RsiEdges ==
    fnPc = "done" =>
        LET c == fnIn.closes  p == fnIn.period  v == fnOut.values
        IN IF Len(c) < p + 1
           THEN /\ v = <<>> /\ ~fnOut.current.present
                /\ ~fnOut.overbought /\ ~fnOut.oversold
           ELSE \A j \in 1..Len(v) :
                  /\ v[j].present => 0 <= v[j].num /\ v[j].num <= 100 * v[j].den
                  /\ j <= p => ~v[j].present
                  /\ j > p =>
                        LET g == GainSum(c, p, j)  l == LossSum(c, p, j)
                        IN /\ (l = 0 /\ g > 0 => v[j].num = 100 * v[j].den)
                           /\ (l = 0 /\ g = 0 => v[j].num = 50 * v[j].den)

(***************************************************************************)
(* C22: SMA at bar j is the mean of the last period closes and absent for  *)
(* the first period - 1 bars (SMA(3) of [10,20,30,40,50] is absent,        *)
(* absent, 20, 30, 40); EMA is absent until period observations; with      *)
(* fewer bars than the period calculate_ma_result / get_ma_distance give   *)
(* empty values and no current value or distance; when current price and  *)
(* current MA are present, distance = round((price - MA) / MA * 100, 2), *)
(* else absent.                                                            *)
(***************************************************************************)
C22_ValEq(v, n, d) == v.present /\ v.num * d = n * v.den

\* with price and MA = mean of the last period closes both present (truthy),
\* distance = round((price - MA) / MA * 100, 2), else absent
C22_Distance(c, p, x) ==
    IF x.current.present /\ x.price.present
    THEN LET sum == WindowSum(c, p, Len(c))
         IN \E d \in PyRoundSet((c[Len(c)] * p - sum) * 100, sum, 2) :
               x.distance = [present |-> TRUE, num |-> d.n, den |-> d.d]
    ELSE ~x.distance.present

C22_MaDistance ==
    fnPc = "done" =>
        LET c == fnIn.closes  p == fnIn.period  r == fnOut.result  g == fnOut.dist
        IN /\ \A j \in 1..Len(c) :
                  /\ (j < p => ~fnOut.sma[j].present /\ ~fnOut.ema[j].present)
                  /\ (j >= p => C22_ValEq(fnOut.sma[j], WindowSum(c, p, j), p) /\ fnOut.ema[j].present)
           /\ (c = <<10, 20, 30, 40, 50>> /\ p = 3 =>
                  /\ ~fnOut.sma[1].present /\ ~fnOut.sma[2].present
                  /\ C22_ValEq(fnOut.sma[3], 20, 1) /\ C22_ValEq(fnOut.sma[4], 30, 1)
                  /\ C22_ValEq(fnOut.sma[5], 40, 1))
           /\ (Len(c) < p => r.values = <<>> /\ ~r.current.present /\ ~r.distance.present)
           /\ (MaPeriodOf(fnIn.key) # 0 /\ Len(c) < MaPeriodOf(fnIn.key) =>
                  ~g.current.present /\ ~g.distance.present /\ ~g.price.present)
           /\ C22_Distance(c, p, r)
           /\ C22_Distance(c, MaPeriodOf(fnIn.key), g)

\* Bars enough for the MA; the current close sits below it (negative distance).
C22_Witness ==
    /\ fnPc = "done" /\ fnOut.result.distance.present
    /\ fnOut.result.distance.num < 0 /\ fnOut.dist.distance.present

(***************************************************************************)
(* C23: wherever the MACD and signal lines are present the histogram is    *)
(* their difference, within the 4-decimal rounding of the three reported   *)
(* values; with fewer than slow + signal bars the three series             *)
(* are empty and the current values absent.                                *)
(***************************************************************************)
C23_MacdHistogram ==
    fnPc = "done" =>
        IF Len(fnIn) < MacdSlowPeriod + MacdSignalPeriod
        THEN fnOut = NoMacdResult
        ELSE /\ fnOut.current
             /\ Len(fnOut.histogram) = Len(fnIn)
             /\ \A j \in 1..Len(fnIn) :
                    LET e == RatAdd(RatAdd(fnOut.histogram[j], fnOut.signal[j]), RatNeg(fnOut.macd[j]))
                    IN Abs(e.n) * 20000 <= 3 * e.d   \* |error| <= 3 half-units of 10^-4

\* A full-length input whose last histogram value is not zero.
C23_Witness ==
    fnPc = "done" /\ Len(fnIn) >= MacdSlowPeriod + MacdSignalPeriod
    /\ fnOut.histogram[Len(fnIn)].n # 0

(***************************************************************************)
(* C24: calculate_all_indicators returns the four MA results, the RSI and  *)
(* the MACD exactly for the include-flags set (None for the others), each  *)
(* equal to that indicator computed alone on the same bars.                *)
(***************************************************************************)
\* the windows of the claim: 20, 50, 100 and 200 weeks as 100, 250, 500 and
\* 1000 daily bars
C24_WindowBars == [ma_20w |-> 100, ma_50w |-> 250, ma_100w |-> 500, ma_200w |-> 1000]

C25_Expected(c, rsi, macd, ws, high, low) ==
    LET price == c[Len(c)]
    IN {SignalCreate("AAPL", DetectMaCrossoverFor(c, w), price, [ma_period |-> w]) :
           w \in {w2 \in {SignalMaWindows[i] : i \in 1..4} : DetectMaCrossoverFor(c, w2) # "none"}}
       \cup (IF rsi.sig # "none"
             THEN {SignalCreate("AAPL", rsi.sig, price,
                     [rsi_value |-> rsi.value,
                      threshold |-> IF rsi.sig = "RSI_OVERSOLD" THEN 30 ELSE 70])}
             ELSE {})
       \cup (IF macd.sig # "none"
             THEN {SignalCreate("AAPL", macd.sig, price, [macd |-> macd.macd, signal |-> macd.signal])}
             ELSE {})
       \cup {SignalCreate("AAPL", ws[i], price, [high_52w |-> high, low_52w |-> low, current |-> price]) :
               i \in 1..Len(ws)}

C25_AggregateDetection ==
    fnPc = "done" =>
        IF Len(fnIn.closes) = 0 THEN fnOut = <<>>
        ELSE LET c == fnIn.closes IN
             \E rsi \in RsiSignalChoices(c), macd \in MacdSignalChoices(c),
               ws \in Detect52wSignals(c[Len(c)], fnIn.high, fnIn.low, Signal52wThreshold) :
                LET e == C25_Expected(c, rsi, macd, ws, fnIn.high, fnIn.low)
                IN /\ {fnOut[i] : i \in 1..Len(fnOut)} = e
                   /\ Len(fnOut) = Cardinality(e)

\* an MA window, an RSI or MACD cross and a 52-week signal fired together
C25_Witness ==
    /\ fnPc = "done"
    /\ \E i, j, k \in 1..Len(fnOut) : /\ "ma_period" \in DOMAIN fnOut[i].details
                                      /\ "high_52w" \in DOMAIN fnOut[j].details
                                      /\ fnOut[k].signal_type \in {"RSI_OVERSOLD", "RSI_OVERBOUGHT",
                                                                 "MACD_BULLISH_CROSS", "MACD_BEARISH_CROSS"}

(***************************************************************************)
(* C26: the quote, indicator and screener TTLs are their base TTL while    *)
(* the market is open (Monday to Friday, 09:30 to 16:00 Eastern) and base  *)
(* times the off-hours multiplier otherwise; the daily and weekly OHLCV    *)
(* TTLs are their base values at any time.                                 *)
(***************************************************************************)
C26_CacheTtl ==
    fnPc = "done" =>
        LET t == 2 * fnIn.minute + fnIn.frac
            open == fnIn.weekday \in 0..4 /\ 2 * 570 <= t /\ t <= 2 * 960
            k == IF open THEN 1 ELSE CacheTtlOffHoursMultiplier
        IN /\ fnOut.quote = CacheTtlQuote * k
           /\ fnOut.indicators = CacheTtlIndicators * k
           /\ fnOut.screener = CacheTtlScreener * k
           /\ fnOut.ohlcv_daily = CacheTtlOhlcvDaily
           /\ fnOut.ohlcv_weekly = CacheTtlOhlcvWeekly

\* Friday at 16:00:00 exactly: still the base quote TTL
C26_Witness ==
    /\ fnPc = "done" /\ fnIn.weekday = 4 /\ fnIn.minute = 960 /\ fnIn.frac = 0
    /\ fnOut.quote = CacheTtlQuote

(***************************************************************************)
(* C27: in each symbol's pipeline get_quote is called only after its bars  *)
(* were fetched and found non-empty and its MA distance computed present;  *)
(* a symbol with empty bars or an absent distance never fetches a quote.   *)
(***************************************************************************)
C27_DistancePresent(s) ==
    \A d \in GetMaDistance(fnIn[s].bars, PsMaKey) :
        d.price.present /\ d.current.present /\ d.distance.present

C27_StepOrdering ==
    \A s \in PsSymbols :
        \A i \in 1..Len(fnOut[s].log) :
            fnOut[s].log[i] = "get_quote" =>
                /\ \E j \in 1..(i - 1) : fnOut[s].log[j] = "get_ohlcv"
                /\ ~fnIn[s].barsRaise /\ fnIn[s].bars # <<>>
                /\ C27_DistancePresent(s)

\* one symbol fetched its quote while the other, with bars but no MA, did not
C27_Witness ==
    \E s, t \in PsSymbols :
        /\ fnPc[s] = "done" /\ fnOut[s].result.present
        /\ fnPc[t] = "done" /\ fnIn[t].bars # <<>> /\ ~C27_DistancePresent(t)
        /\ fnOut[t].log = <<"get_ohlcv">>

(***************************************************************************)
(* C28: for a fixed universe, per-symbol outcomes and request, the page    *)
(* and total that screen returns are the same whatever order the          *)
(* per-symbol tasks complete in: the response is the one computed from the *)
(* per-symbol results in universe order.                                   *)
(***************************************************************************)
C28_OrderIndependence ==
    scrPc = "done" =>
        LET r == ScreenResponse(scrReq, [i \in 1..ScrSize |-> ProcessStockResult(scrUniverse[i])])
        IN scrResp.rows = r.rows /\ scrResp.total = r.total

\* two returned rows tie on the sort key
C28_Witness ==
    /\ scrPc = "done"
    /\ Len(scrResp.sorted) >= 2
    /\ SortKey(scrReq.sort_by, scrResp.sorted[1]) = SortKey(scrReq.sort_by, scrResp.sorted[2])
    /\ Len(scrResp.rows) = 1

(***************************************************************************)
(* C29: whatever the interleaving of concurrent save_signal calls, the     *)
(* store never holds two events of the same (symbol, signal_type) within   *)
(* 24 hours of each other, and no save_signal for a pair fails because     *)
(* several matching records exist.                                         *)
(***************************************************************************)
C29_ConcurrentDedupe ==
    /\ \A e, f \in store :
          (e # f /\ e.symbol = f.symbol /\ e.signal_type = f.signal_type)
              => Abs(e.timestamp - f.timestamp) >= DedupeHours
    /\ lastCall.result # "raised"

(***************************************************************************)
(* C30: once remove_stock(symbol) has completed, no get_universe call that *)
(* starts later returns that symbol, whatever the interleaving with a      *)
(* concurrent get_universe that read the database before the removal.     *)
(***************************************************************************)
C30_UniverseCoherence ==
    \A g \in UvGetters :
        (fnPc[g] = "done" /\ fnOut[g].after) => UvRemoved \notin fnOut[g].ret

====
